---- MODULE Spec2Model ----
(***************************************************************************)
(* HomeMadeChess: the chess rules engine (core/piece.py, core/board.py,    *)
(* core/move.py, core/game_state.py, core/apply.py, core/move_generator.py,*)
(* core/rules.py) and its GameController (game/controller.py), as a state  *)
(* machine over one authoritative Board + GameState pair.                  *)
(*                                                                         *)
(* Coordinates are <<rank, file>>, rank 0 = White's back rank, file 0 = a. *)
(* Python strings are sequences of one-character strings.  Python None is  *)
(* NoPiece / NoSquare / NoPromotion / NoMove / NoUndo, one per type.       *)
(***************************************************************************)
EXTENDS Integers, Sequences, FiniteSets, TLC

\* ------------------------------------------------------------------ bounds
\* Number of plies played from the starting position.
MaxPly == 10
\* Length of the controller's undo stack.
MaxStack == 3
\* Number of undo records a caller of the engine keeps.
MaxKept == 3

VARIABLES
    board,            \* Board._grid: square -> piece (or None)
    game_state,       \* GameState: side_to_move, castling_rights, en_passant_target, clocks
    last_move,        \* the Move most recently applied and not undone (or None)
    undo_info,        \* the undo record apply_move returned for last_move (or None)
    undo_stack,       \* GameController._undo_stack: (move, undo record) pairs
    redo_stack,       \* GameController._redo_stack: (move, undo record) pairs
    selected_square,  \* GameController._selected_square (or None)
    outcome           \* what the last call returned, or the exception it raised

vars == <<board, game_state, last_move, undo_info, undo_stack, redo_stack,
          selected_square, outcome>>

\* ---------------------------------------------------------------- piece.py
PAWN == "P"
KNIGHT == "N"
BISHOP == "B"
ROOK == "R"
QUEEN == "Q"
KING == "K"

WHITE == "white"
BLACK == "black"

NoSquare == <<>>
NoPiece == [piece_type |-> "None", color |-> "None", position |-> NoSquare]

\* Piece.__init__: a piece of the given class, colour and recorded position.
Piece(t, color, position) == [piece_type |-> t, color |-> color, position |-> position]

\* Pawn.start_rank
start_rank(piece) == IF piece.color = WHITE THEN 1 ELSE 6

\* Pawn.direction
direction(piece) == IF piece.color = WHITE THEN 1 ELSE -1

KnightDeltas == << <<-2, -1>>, <<-2, 1>>, <<-1, -2>>, <<-1, 2>>,
                   <<1, -2>>, <<1, 2>>, <<2, -1>>, <<2, 1>> >>
BishopDeltas == << <<-1, -1>>, <<-1, 1>>, <<1, -1>>, <<1, 1>> >>
RookDeltas == << <<-1, 0>>, <<1, 0>>, <<0, -1>>, <<0, 1>> >>
QueenDeltas == << <<-1, -1>>, <<-1, 0>>, <<-1, 1>>, <<0, -1>>, <<0, 1>>,
                  <<1, -1>>, <<1, 0>>, <<1, 1>> >>
KingDeltas == << <<-1, -1>>, <<-1, 0>>, <<-1, 1>>, <<0, -1>>, <<0, 1>>,
                 <<1, -1>>, <<1, 0>>, <<1, 1>> >>

\* str.upper / str.lower / str.isupper / str.isdigit / int on one character.
UpperChars == <<"A", "B", "C", "D", "E", "F", "G", "H", "I", "J", "K", "L", "M",
                "N", "O", "P", "Q", "R", "S", "T", "U", "V", "W", "X", "Y", "Z">>
LowerChars == <<"a", "b", "c", "d", "e", "f", "g", "h", "i", "j", "k", "l", "m",
                "n", "o", "p", "q", "r", "s", "t", "u", "v", "w", "x", "y", "z">>
DigitChars == <<"0", "1", "2", "3", "4", "5", "6", "7", "8", "9">>

IndexOf(chars, c) == IF \E i \in 1..Len(chars) : chars[i] = c
                     THEN CHOOSE i \in 1..Len(chars) : chars[i] = c
                     ELSE 0

\* The elements of a list.
Range(seq) == {seq[i] : i \in 1..Len(seq)}

UpperOf == [c \in Range(LowerChars) |-> UpperChars[IndexOf(LowerChars, c)]]
LowerOf == [c \in Range(UpperChars) |-> LowerChars[IndexOf(UpperChars, c)]]
DigitOf == [c \in Range(DigitChars) |-> IndexOf(DigitChars, c) - 1]

isupper(c) == c \in DOMAIN LowerOf
upper(c) == IF c \in DOMAIN UpperOf THEN UpperOf[c] ELSE c
lower(c) == IF c \in DOMAIN LowerOf THEN LowerOf[c] ELSE c
isdigit(c) == c \in DOMAIN DigitOf
int(c) == DigitOf[c]

\* The piece classes piece_from_fen knows.
PieceClasses == {PAWN, KNIGHT, BISHOP, ROOK, QUEEN, KING}

\* piece_from_fen: upper case = White; an unknown letter raises ValueError,
\* reported as a piece of type "ValueError".
piece_from_fen(symbol, position) ==
    IF upper(symbol) \in PieceClasses
    THEN Piece(upper(symbol), IF isupper(symbol) THEN WHITE ELSE BLACK, position)
    ELSE [piece_type |-> "ValueError", color |-> "None", position |-> NoSquare]

\* ---------------------------------------------------------------- board.py
RANKS == 8
FILES == 8

Squares == {<<rank, file>> : rank \in 0..(RANKS - 1), file \in 0..(FILES - 1)}

\* Board.__init__: every square None.
EmptyBoard == [s \in Squares |-> NoPiece]

\* Board.is_valid_square
is_valid_square(rank, file) == 0 <= rank /\ rank < RANKS /\ 0 <= file /\ file < FILES

\* Board.get_piece_at: None off the board.
get_piece_at(b, rank, file) ==
    IF is_valid_square(rank, file) THEN b[<<rank, file>>] ELSE NoPiece

\* A set_piece_at that stores the piece and leaves its recorded position.
set_piece_at_KeepsPosition(b, rank, file, piece) ==
    IF ~is_valid_square(rank, file) THEN b
    ELSE [b EXCEPT ![<<rank, file>>] = piece]

\* Board.set_piece_at: stores the piece and updates its recorded position.
\* (Off the board it raises IndexError; callers that can get there test
\* is_valid_square first.)
set_piece_at(b, rank, file, piece) ==
    IF ~is_valid_square(rank, file) THEN b
    ELSE [b EXCEPT ![<<rank, file>>] =
            IF piece = NoPiece THEN NoPiece
            ELSE [piece EXCEPT !.position = <<rank, file>>]]

\* Board.clear_square
clear_square(b, rank, file) == set_piece_at(b, rank, file, NoPiece)

\* The squares in the order of "for r in range(8): for f in range(8)".
SquareOrder == [i \in 1..(RANKS * FILES) |-> <<(i - 1) \div FILES, (i - 1) % FILES>>]

\* Board.find_king: the first king of that colour in scan order, or None.
find_king(b, color) ==
    LET hits == {i \in 1..(RANKS * FILES) :
                    /\ b[SquareOrder[i]] # NoPiece
                    /\ b[SquareOrder[i]].color = color
                    /\ b[SquareOrder[i]].piece_type = KING}
    IN IF hits = {} THEN NoSquare
       ELSE SquareOrder[CHOOSE i \in hits : \A j \in hits : i <= j]

\* A copy that holds the original's piece objects.
deep_copy_SharedPieces(b) == b

\* Board.deep_copy: new piece instances from type and colour, placed on their
\* squares (the recorded position is the square, whatever the original said).
deep_copy(b) ==
    [s \in Squares |->
        IF b[s] = NoPiece THEN NoPiece
        ELSE piece_from_fen(IF b[s].color = WHITE THEN b[s].piece_type
                            ELSE lower(b[s].piece_type), s)]

\* ----------------------------------------------------------------- move.py
PROMOTION_PIECES == <<"Q", "R", "B", "N">>

NoPromotion == "None"

\* Move(from_square, to_square, promotion_piece, is_castle, is_en_passant,
\*      is_double_pawn_push)
Move(from, to, promo, castle, ep, dbl) ==
    [from_square |-> from, to_square |-> to, promotion_piece |-> promo,
     is_castle |-> castle, is_en_passant |-> ep, is_double_pawn_push |-> dbl]

PlainMove(from, to) == Move(from, to, NoPromotion, FALSE, FALSE, FALSE)

NoMove == Move(NoSquare, NoSquare, NoPromotion, FALSE, FALSE, FALSE)

FileChars == <<"a", "b", "c", "d", "e", "f", "g", "h">>

\* Move.uci_style: files[f] followed by str(8 - r) for each square, then the
\* promotion letter in lower case.
uci_style(move) ==
    LET r0 == move.from_square[1]
        f0 == move.from_square[2]
        r1 == move.to_square[1]
        f1 == move.to_square[2]
        from_str == <<FileChars[f0 + 1], DigitChars[(8 - r0) + 1]>>
        to_str == <<FileChars[f1 + 1], DigitChars[(8 - r1) + 1]>>
        promo == IF move.promotion_piece = NoPromotion THEN <<>>
                 ELSE <<lower(move.promotion_piece)>>
    IN from_str \o to_str \o promo

\* ----------------------------------------------------------- game_state.py
CASTLING_KEYS == <<"K", "Q", "k", "q">>

STARTING_FEN ==
    <<"r", "n", "b", "q", "k", "b", "n", "r", "/",
      "p", "p", "p", "p", "p", "p", "p", "p", "/",
      "8", "/", "8", "/", "8", "/", "8", "/",
      "P", "P", "P", "P", "P", "P", "P", "P", "/",
      "R", "N", "B", "Q", "K", "B", "N", "R", " ",
      "w", " ", "K", "Q", "k", "q", " ", "-", " ", "0", " ", "1">>

\* GameState.__init__
GameState(side, castling, ep, halfmove, fullmove) ==
    [side_to_move |-> side, castling_rights |-> castling, en_passant_target |-> ep,
     halfmove_clock |-> halfmove, fullmove_number |-> fullmove]

\* GameState.copy
copy_state(gs) ==
    GameState(gs.side_to_move, gs.castling_rights, gs.en_passant_target,
              gs.halfmove_clock, gs.fullmove_number)

NoState == GameState("None", <<>>, NoSquare, 0, 0)

\* "c in s" for a one-character c.
InStr(c, s) == \E i \in 1..Len(s) : s[i] = c

\* GameState.fen_square_to_coords: ValueError unless two characters, a file
\* letter a..h (any case) and a rank digit with 8 - digit in 0..7.
fen_square_to_coords(sq) ==
    IF Len(sq) # 2 THEN [error |-> "ValueError", value |-> NoSquare]
    ELSE LET file_char == lower(sq[1])
             rank_char == sq[2]
             file_idx == IndexOf(LowerChars, file_char) - 1
         IN IF ~isdigit(rank_char) THEN [error |-> "ValueError", value |-> NoSquare]
            ELSE LET rank_idx == 8 - int(rank_char)
                 IN IF ~(0 <= file_idx /\ file_idx < 8 /\ 0 <= rank_idx /\ rank_idx < 8)
                    THEN [error |-> "ValueError", value |-> NoSquare]
                    ELSE [error |-> "", value |-> <<rank_idx, file_idx>>]

\* A square name with the rank counted from White's side.
coords_to_fen_square_FromWhite(rank, file) ==
    <<LowerChars[file + 1], DigitChars[(rank + 1) + 1]>>

\* GameState.coords_to_fen_square: chr(ord('a') + file) then str(8 - rank).
coords_to_fen_square(rank, file) == <<LowerChars[file + 1], DigitChars[(8 - rank) + 1]>>

\* str.split(sep) for a one-character separator: every separator cuts.
RECURSIVE SplitOn(_, _, _, _)
SplitOn(s, sep, i, cur) ==
    IF i > Len(s) THEN <<cur>>
    ELSE IF s[i] = sep THEN <<cur>> \o SplitOn(s, sep, i + 1, <<>>)
    ELSE SplitOn(s, sep, i + 1, Append(cur, s[i]))

\* str.split(): runs of blanks separate, no empty fields.
SplitFields(s) == SelectSeq(SplitOn(s, " ", 1, <<>>), LAMBDA part : part # <<>>)

\* "for _ in range(n): board.set_piece_at(our_rank, file_idx, None); file_idx += 1"
RECURSIVE ClearRun(_, _, _, _)
ClearRun(b, our_rank, file_idx, n) ==
    IF n = 0 THEN [error |-> "", board |-> b, file_idx |-> file_idx]
    ELSE IF ~is_valid_square(our_rank, file_idx)
         THEN [error |-> "IndexError", board |-> b, file_idx |-> file_idx]
    ELSE ClearRun(set_piece_at(b, our_rank, file_idx, NoPiece), our_rank, file_idx + 1, n - 1)

\* The loop over the characters of one rank token of the placement.
RECURSIVE ParseRank(_, _, _, _, _)
ParseRank(rank_str, i, our_rank, file_idx, b) ==
    IF i > Len(rank_str) THEN [error |-> "", board |-> b, file_idx |-> file_idx]
    ELSE LET c == rank_str[i] IN
         IF isdigit(c)
         THEN LET run == ClearRun(b, our_rank, file_idx, int(c))
              IN IF run.error # "" THEN run
                 ELSE ParseRank(rank_str, i + 1, our_rank, run.file_idx, run.board)
         ELSE LET piece == piece_from_fen(c, <<our_rank, file_idx>>)
              IN IF piece.piece_type = "ValueError"
                 THEN [error |-> "ValueError", board |-> b, file_idx |-> file_idx]
                 ELSE IF ~is_valid_square(our_rank, file_idx)
                 THEN [error |-> "IndexError", board |-> b, file_idx |-> file_idx]
                 ELSE ParseRank(rank_str, i + 1, our_rank, file_idx + 1,
                                set_piece_at(b, our_rank, file_idx, piece))

\* The loop over the 8 rank tokens: token rank_idx (from 0) is board rank
\* 7 - rank_idx, and each must fill exactly 8 files.
RECURSIVE ParsePlacement(_, _, _)
ParsePlacement(rank_strs, rank_idx, b) ==
    IF rank_idx >= Len(rank_strs) THEN [error |-> "", board |-> b]
    ELSE LET row == ParseRank(rank_strs[rank_idx + 1], 1, 7 - rank_idx, 0, b)
         IN IF row.error # "" THEN [error |-> row.error, board |-> row.board]
            ELSE IF row.file_idx # 8 THEN [error |-> "ValueError", board |-> row.board]
            ELSE ParsePlacement(rank_strs, rank_idx + 1, row.board)

\* int(text) for a clock field: a non-empty run of decimal digits.
RECURSIVE DigitsValue(_, _, _)
DigitsValue(s, i, acc) ==
    IF i > Len(s) THEN acc ELSE DigitsValue(s, i + 1, acc * 10 + int(s[i]))

ParseInt(s) ==
    IF s # <<>> /\ \A i \in 1..Len(s) : isdigit(s[i])
    THEN [error |-> "", value |-> DigitsValue(s, 1, 0)]
    ELSE [error |-> "ValueError", value |-> 0]

\* str(n) for an integer.
RECURSIVE NatStr(_)
NatStr(n) == IF n < 10 THEN <<DigitChars[n + 1]>>
             ELSE NatStr(n \div 10) \o <<DigitChars[(n % 10) + 1]>>

IntStr(n) == IF n < 0 THEN <<"-">> \o NatStr(-n) ELSE NatStr(n)

\* GameState.from_fen(fen, board): parses the placement into the board it is
\* given (mutating it square by square as it goes) and returns the state.
\* The result carries the error raised ("" for none) and the board as the
\* call left it.
from_fen(fen, b) ==
    LET parts == SplitFields(fen)
        Fail(kind, bd) == [error |-> kind, board |-> bd, state |-> NoState]
    IN
    IF Len(parts) < 4 THEN Fail("ValueError", b)
    ELSE
    LET rank_strs == SplitOn(parts[1], "/", 1, <<>>) IN
    IF Len(rank_strs) # 8 THEN Fail("ValueError", b)
    ELSE
    LET placed == ParsePlacement(rank_strs, 0, b) IN
    IF placed.error # "" THEN Fail(placed.error, placed.board)
    ELSE
    LET side == [i \in 1..Len(parts[2]) |-> lower(parts[2][i])] IN
    IF side # <<"w">> /\ side # <<"b">> THEN Fail("ValueError", placed.board)
    ELSE
    LET side_to_move == IF side = <<"w">> THEN WHITE ELSE BLACK
        castling == IF parts[3] # <<"-">>
                    THEN SelectSeq(parts[3], LAMBDA c : InStr(c, CASTLING_KEYS))
                    ELSE parts[3]
        ep == IF parts[4] # <<"-">> THEN fen_square_to_coords(parts[4])
              ELSE [error |-> "", value |-> NoSquare]
    IN
    IF ep.error # "" THEN Fail(ep.error, placed.board)
    ELSE
    LET halfmove == IF Len(parts) > 4 THEN ParseInt(parts[5]) ELSE [error |-> "", value |-> 0]
    IN
    IF halfmove.error # "" THEN Fail(halfmove.error, placed.board)
    ELSE
    LET fullmove == IF Len(parts) > 5 THEN ParseInt(parts[6]) ELSE [error |-> "", value |-> 1]
    IN
    IF fullmove.error # "" THEN Fail(fullmove.error, placed.board)
    ELSE [error |-> "", board |-> placed.board,
          state |-> GameState(side_to_move, castling, ep.value,
                              halfmove.value, fullmove.value)]

\* One rank of GameState.to_fen_placement: files 0..7 with a run counter.
RECURSIVE RowStr(_, _, _, _)
RowStr(b, rank, file, empty) ==
    IF file > 7 THEN (IF empty # 0 THEN IntStr(empty) ELSE <<>>)
    ELSE LET p == get_piece_at(b, rank, file) IN
         IF p = NoPiece THEN RowStr(b, rank, file + 1, empty + 1)
         ELSE (IF empty # 0 THEN IntStr(empty) ELSE <<>>)
              \o <<IF p.color = WHITE THEN p.piece_type ELSE lower(p.piece_type)>>
              \o RowStr(b, rank, file + 1, 0)

\* "/".join(rows), rows from rank 7 down to rank 0.
RECURSIVE JoinRows(_, _)
JoinRows(b, rank) ==
    IF rank = 0 THEN RowStr(b, 0, 0, 0)
    ELSE RowStr(b, rank, 0, 0) \o <<"/">> \o JoinRows(b, rank - 1)

\* GameState.to_fen_placement
to_fen_placement(b) == JoinRows(b, 7)

\* The text to_fen writes for each field.
fen_side(gs) == IF gs.side_to_move = WHITE THEN <<"w">> ELSE <<"b">>
fen_castling(gs) == IF gs.castling_rights # <<>> THEN gs.castling_rights ELSE <<"-">>
fen_ep(gs) == IF gs.en_passant_target # NoSquare
              THEN coords_to_fen_square(gs.en_passant_target[1], gs.en_passant_target[2])
              ELSE <<"-">>

\* GameState.to_fen: the six fields separated by single blanks.
to_fen(gs, b) ==
    to_fen_placement(b) \o <<" ">> \o fen_side(gs) \o <<" ">> \o fen_castling(gs)
    \o <<" ">> \o fen_ep(gs) \o <<" ">> \o IntStr(gs.halfmove_clock)
    \o <<" ">> \o IntStr(gs.fullmove_number)

\* ---------------------------------------------------------------- apply.py
\* UndoInfo: (captured_piece, captured_square, rook_from, rook_to,
\*            prev_castling, prev_ep, prev_halfmove)
UndoInfo(captured_piece, captured_square, rook_from, rook_to, prev_castling, prev_ep, prev_halfmove) ==
    [captured_piece |-> captured_piece, captured_square |-> captured_square,
     rook_from |-> rook_from, rook_to |-> rook_to, prev_castling |-> prev_castling,
     prev_ep |-> prev_ep, prev_halfmove |-> prev_halfmove]

NoUndo == UndoInfo(NoPiece, NoSquare, NoSquare, NoSquare, <<>>, NoSquare, -1)

\* list.remove(c): drops the first occurrence.
RECURSIVE RemoveFirst(_, _)
RemoveFirst(s, c) ==
    IF s = <<>> THEN <<>>
    ELSE IF Head(s) = c THEN Tail(s)
    ELSE <<Head(s)>> \o RemoveFirst(Tail(s), c)

\* "if c in new_rights: new_rights.remove(c)"
DropRight(rights, c) == IF InStr(c, rights) THEN RemoveFirst(rights, c) ELSE rights

\* apply_move, lines 97-120: the rights the moved piece costs its side.  A
\* king costs both; a rook costs the right of the file it leaves (file 7 or
\* file 0, whatever the rank).
RightsAfterMover(rights, piece, f0) ==
    LET afterKing ==
            IF piece.piece_type = KING
            THEN IF piece.color = WHITE THEN DropRight(DropRight(rights, "K"), "Q")
                 ELSE DropRight(DropRight(rights, "k"), "q")
            ELSE rights
    IN IF piece.piece_type = ROOK
       THEN IF piece.color = WHITE
            THEN LET a == IF f0 = 7 THEN DropRight(afterKing, "K") ELSE afterKing
                 IN IF f0 = 0 THEN DropRight(a, "Q") ELSE a
            ELSE LET a == IF f0 = 7 THEN DropRight(afterKing, "k") ELSE afterKing
                 IN IF f0 = 0 THEN DropRight(a, "q") ELSE a
       ELSE afterKing

\* apply_move, lines 121-132: the right a captured rook costs its owner, by
\* the file of the square it was captured on.
RightsAfterCapture(rights, captured_piece, captured_square) ==
    IF captured_piece # NoPiece /\ captured_piece.piece_type = ROOK
    THEN LET a == IF captured_square[2] = 7
                  THEN IF captured_piece.color = WHITE /\ InStr("K", rights)
                       THEN RemoveFirst(rights, "K")
                       ELSE IF captured_piece.color = BLACK /\ InStr("k", rights)
                       THEN RemoveFirst(rights, "k")
                       ELSE rights
                  ELSE rights
         IN IF captured_square[2] = 0
            THEN IF captured_piece.color = WHITE /\ InStr("Q", a)
                 THEN RemoveFirst(a, "Q")
                 ELSE IF captured_piece.color = BLACK /\ InStr("q", a)
                 THEN RemoveFirst(a, "q")
                 ELSE a
            ELSE a
    ELSE rights

\* A capture square that leaves the pawn that was passed where it is.
EnPassantSquare_AtDestination(move) == move.to_square

\* apply_move, lines 52-53: the pawn taken en passant is on the file of
\* to_square and the rank of from_square.
EnPassantSquare(move) == <<move.from_square[1], move.to_square[2]>>

\* A target left on the square the pawn started from.
EnPassantTarget_AtOrigin(move) ==
    IF move.is_double_pawn_push THEN move.from_square ELSE NoSquare

\* apply_move, lines 89 and 135-138: the target is cleared, then set after a
\* double pawn push to the rank midway, on the file of to_square.
EnPassantTarget(move) ==
    IF move.is_double_pawn_push
    THEN <<(move.from_square[1] + move.to_square[1]) \div 2, move.to_square[2]>>
    ELSE NoSquare

\* apply_move, lines 60-65: the corner a castle takes the rook from, on the
\* rank the king starts on.
CastleRookFrom(move) ==
    IF move.to_square[2] > move.from_square[2]
    THEN <<move.from_square[1], 7>> ELSE <<move.from_square[1], 0>>

\* A castle that puts the rook on file 5 on either wing.
CastleRookTo_AlwaysFile5(move) == <<move.from_square[1], 5>>

\* apply_move, lines 60-65: the square a castle puts the rook on.
CastleRookTo(move) ==
    IF move.to_square[2] > move.from_square[2]
    THEN <<move.from_square[1], 5>> ELSE <<move.from_square[1], 3>>

\* A halfmove clock that only pawn moves reset.
HalfmoveAfter_PawnOnly(gs, piece, captured_piece) ==
    IF piece.piece_type = PAWN THEN 0 ELSE gs.halfmove_clock + 1

\* apply_move, lines 90-93: the halfmove clock after a move of the piece that
\* took captured_piece (None when nothing was taken).
HalfmoveAfter(gs, piece, captured_piece) ==
    IF piece.piece_type = PAWN \/ captured_piece # NoPiece
    THEN 0 ELSE gs.halfmove_clock + 1

\* An apply_move that never finds from_square empty.
MissingPiece_Unchecked(piece) == FALSE

\* apply_move, lines 37-38: "if piece is None", the test made on the piece
\* read from from_square before anything is written.
MissingPiece(piece) == piece = NoPiece

\* apply_move(board, game_state, move): the board and state after the move
\* and the undo record; ValueError, with nothing changed, when from_square is
\* empty.
apply_move(b, gs, move) ==
    LET r0 == move.from_square[1]
        f0 == move.from_square[2]
        r1 == move.to_square[1]
        f1 == move.to_square[2]
        piece == b[<<r0, f0>>]
    IN
    IF MissingPiece(piece)
    THEN [error |-> "ValueError", board |-> b, state |-> gs, undo |-> NoUndo]
    ELSE
    LET \* En passant: capture the pawn that was passed
        ep_square == EnPassantSquare(move)
        ep_captured == IF move.is_en_passant THEN b[ep_square] ELSE NoPiece
        b1 == IF move.is_en_passant THEN clear_square(b, ep_square[1], ep_square[2]) ELSE b
        captured_square == IF move.is_en_passant THEN ep_square ELSE <<r1, f1>>
        \* Castling: move rook
        rook_from == IF move.is_castle THEN CastleRookFrom(move) ELSE NoSquare
        rook_to == IF move.is_castle THEN CastleRookTo(move) ELSE NoSquare
        b2 == IF move.is_castle
              THEN set_piece_at(clear_square(b1, rook_from[1], rook_from[2]),
                                rook_to[1], rook_to[2], b1[rook_from])
              ELSE b1
        \* Capture (normal or already handled en passant)
        normal_capture == ~move.is_en_passant /\ b2[<<r1, f1>>] # NoPiece
        captured_piece == IF normal_capture THEN b2[<<r1, f1>>] ELSE ep_captured
        b3 == IF normal_capture THEN clear_square(b2, r1, f1) ELSE b2
        \* Move the piece
        b4 == clear_square(b3, r0, f0)
        b5 == IF move.promotion_piece # NoPromotion
              THEN set_piece_at(b4, r1, f1,
                       piece_from_fen(IF piece.color = WHITE THEN move.promotion_piece
                                      ELSE lower(move.promotion_piece), <<r1, f1>>))
              ELSE set_piece_at(b4, r1, f1, piece)
        \* Update game state
        side == IF gs.side_to_move = WHITE THEN BLACK ELSE WHITE
        halfmove == HalfmoveAfter(gs, piece, captured_piece)
        fullmove == IF side = WHITE THEN gs.fullmove_number + 1 ELSE gs.fullmove_number
        new_rights == RightsAfterCapture(RightsAfterMover(gs.castling_rights, piece, f0),
                                         captured_piece, captured_square)
        \* En passant target: set after double pawn push
        ep_target == EnPassantTarget(move)
    IN [error |-> "",
        board |-> b5,
        state |-> GameState(side, new_rights, ep_target, halfmove, fullmove),
        undo |-> UndoInfo(captured_piece, captured_square, rook_from, rook_to,
                          gs.castling_rights, gs.en_passant_target, gs.halfmove_clock)]

\* An undo that puts the piece found on to_square back, promoted or not.
RestoredPiece_KeepPromoted(move, piece) == piece

\* undo_move, lines 177-182: the piece that goes back to from_square is the
\* piece found on to_square, or a new pawn of its colour if the move promoted.
RestoredPiece(move, piece) ==
    IF move.promotion_piece # NoPromotion
    THEN Piece(PAWN, piece.color, move.from_square)
    ELSE piece

\* undo_move(board, game_state, move, undo_info): ValueError, with nothing
\* changed, when to_square is empty.
undo_move(b, gs, move, info) ==
    LET r0 == move.from_square[1]
        f0 == move.from_square[2]
        r1 == move.to_square[1]
        f1 == move.to_square[2]
        piece == b[<<r1, f1>>]
    IN
    IF piece = NoPiece
    THEN [error |-> "ValueError", board |-> b, state |-> gs]
    ELSE
    LET \* Flip turn back
        side == IF gs.side_to_move = WHITE THEN BLACK ELSE WHITE
        fullmove == IF side = BLACK THEN gs.fullmove_number - 1 ELSE gs.fullmove_number
        \* Remove piece from destination
        b1 == clear_square(b, r1, f1)
        \* Restore piece at source (if promotion, put the pawn back)
        b2 == set_piece_at(b1, r0, f0, RestoredPiece(move, piece))
        \* Restore captured piece
        b3 == IF info.captured_piece # NoPiece
              THEN set_piece_at(b2, info.captured_square[1],
                                info.captured_square[2], info.captured_piece)
              ELSE b2
        \* Undo castling: move rook back
        b4 == IF move.is_castle /\ info.rook_from # NoSquare
                 /\ info.rook_to # NoSquare
              THEN set_piece_at(clear_square(b3, info.rook_to[1], info.rook_to[2]),
                                info.rook_from[1], info.rook_from[2],
                                b3[info.rook_to])
              ELSE b3
    IN [error |-> "",
        board |-> b4,
        state |-> GameState(side, info.prev_castling, info.prev_ep,
                            info.prev_halfmove, fullmove)]

\* ------------------------------------------------------- move_generator.py
Opponent(color) == IF color = WHITE THEN BLACK ELSE WHITE

\* square_attacked_by, lines 29-38 (Pawns): looks for a by_color pawn on
\* (rank + direction, file - 1) and (rank + direction, file + 1), direction
\* being +1 for White and -1 for Black.
PawnAttack(b, square, by_color) ==
    LET dir == IF by_color = WHITE THEN 1 ELSE -1
    IN \E df \in {-1, 1} :
          LET r2 == square[1] + dir
              f2 == square[2] + df
          IN /\ is_valid_square(r2, f2)
             /\ get_piece_at(b, r2, f2) # NoPiece
             /\ get_piece_at(b, r2, f2).color = by_color
             /\ get_piece_at(b, r2, f2).piece_type = PAWN

\* square_attacked_by, lines 40-46 (Knights) and 69-75 (King): a by_color
\* piece of that type one delta away.
StepAttack(b, square, by_color, deltas, t) ==
    \E i \in 1..Len(deltas) :
        LET r2 == square[1] + deltas[i][1]
            f2 == square[2] + deltas[i][2]
        IN /\ is_valid_square(r2, f2)
           /\ get_piece_at(b, r2, f2) # NoPiece
           /\ get_piece_at(b, r2, f2).color = by_color
           /\ get_piece_at(b, r2, f2).piece_type = t

\* square_attacked_by, lines 53-67: one ray walk from (r2, f2) in direction
\* (dr, df).  An occupied exclude_square is stepped over; the first other
\* piece ends the walk.
RECURSIVE RayAttack(_, _, _, _, _, _, _)
RayAttack(b, r2, f2, dr, df, by_color, exclude_square) ==
    IF ~is_valid_square(r2, f2) THEN FALSE
    ELSE LET p == get_piece_at(b, r2, f2) IN
         IF p # NoPiece
         THEN IF <<r2, f2>> = exclude_square
              THEN RayAttack(b, r2 + dr, f2 + df, dr, df, by_color, exclude_square)
              ELSE /\ p.color = by_color
                   /\ \/ p.piece_type \in {ROOK, "Q"} /\ (dr = 0 \/ df = 0)
                      \/ p.piece_type \in {"B", "Q"} /\ dr # 0 /\ df # 0
         ELSE RayAttack(b, r2 + dr, f2 + df, dr, df, by_color, exclude_square)

\* The cursor of a ray walk that was left by break or return.
WalkEnded == NoSquare

\* "r2 += dr; f2 += df"
Advance(cur, delta) == <<cur[1] + delta[1], cur[2] + delta[2]>>

\* A walk that meets an occupied exclude_square and goes round the loop
\* again without stepping on.
AttackWalkNext_SkipInPlace(b, cur, delta, exclude_square) ==
    IF get_piece_at(b, cur[1], cur[2]) # NoPiece
    THEN IF cur = exclude_square THEN cur ELSE WalkEnded
    ELSE Advance(cur, delta)

\* square_attacked_by, lines 54-67: the cursor (r2, f2) after one pass of the
\* while body entered at a square on the board.
AttackWalkNext(b, cur, delta, exclude_square) ==
    IF get_piece_at(b, cur[1], cur[2]) # NoPiece
    THEN IF cur = exclude_square THEN Advance(cur, delta) ELSE WalkEnded
    ELSE Advance(cur, delta)

\* square_attacked_by, line 53: the passes of the while loop made from the
\* cursor on, at most fuel of them; fuel + 1 when the loop is still running
\* after fuel passes.
RECURSIVE AttackWalkLength(_, _, _, _, _)
AttackWalkLength(b, cur, delta, exclude_square, fuel) ==
    IF cur = WalkEnded THEN 0
    ELSE IF ~is_valid_square(cur[1], cur[2]) THEN 0
    ELSE IF fuel = 0 THEN 1
    ELSE 1 + AttackWalkLength(b, AttackWalkNext(b, cur, delta, exclude_square),
                              delta, exclude_square, fuel - 1)

\* square_attacked_by, lines 48-67 (Sliding)
SlideAttack(b, square, by_color, exclude_square) ==
    LET deltas == RookDeltas \o BishopDeltas
    IN \E i \in 1..Len(deltas) :
          RayAttack(b, square[1] + deltas[i][1], square[2] + deltas[i][2],
                    deltas[i][1], deltas[i][2], by_color, exclude_square)

\* square_attacked_by(board, square, by_color, exclude_square)
square_attacked_by(b, square, by_color, exclude_square) ==
    \/ PawnAttack(b, square, by_color)
    \/ StepAttack(b, square, by_color, KnightDeltas, KNIGHT)
    \/ SlideAttack(b, square, by_color, exclude_square)
    \/ StepAttack(b, square, by_color, KingDeltas, KING)

\* A generator that always promotes to a queen.
PromotionMoves_QueenOnly(from, to) ==
    <<Move(from, to, "Q", FALSE, FALSE, FALSE)>>

\* "for promo in PROMOTION_PIECES: moves.append(Move(from, to, promotion_piece=promo))"
PromotionMoves(from, to) ==
    [i \in 1..Len(PROMOTION_PIECES) |->
        Move(from, to, PROMOTION_PIECES[i], FALSE, FALSE, FALSE)]

\* A pawn that only ever steps one square forward.
PawnPushes_SingleOnly(b, piece) ==
    LET r0 == piece.position[1]
        f0 == piece.position[2]
        r1 == r0 + direction(piece)
    IN IF is_valid_square(r1, f0) /\ get_piece_at(b, r1, f0) = NoPiece
       THEN IF r1 \in {0, 7} THEN PromotionMoves(<<r0, f0>>, <<r1, f0>>)
            ELSE <<PlainMove(<<r0, f0>>, <<r1, f0>>)>>
       ELSE <<>>

\* A pawn whose double push does not look at the square it lands on.
PawnPushes_DoubleOntoOccupied(b, piece) ==
    LET r0 == piece.position[1]
        f0 == piece.position[2]
        dr == direction(piece)
        r1 == r0 + dr
    IN IF is_valid_square(r1, f0) /\ get_piece_at(b, r1, f0) = NoPiece
       THEN IF r1 \in {0, 7} THEN PromotionMoves(<<r0, f0>>, <<r1, f0>>)
            ELSE <<PlainMove(<<r0, f0>>, <<r1, f0>>)>>
                 \o (IF r0 = start_rank(piece)
                     THEN <<Move(<<r0, f0>>, <<r0 + 2 * dr, f0>>, NoPromotion,
                                 FALSE, FALSE, TRUE)>>
                     ELSE <<>>)
       ELSE <<>>

\* _pseudo_legal_pawn_moves, lines 88-100: one forward, two forward from start
PawnPushes(b, piece) ==
    LET r0 == piece.position[1]
        f0 == piece.position[2]
        dr == direction(piece)
        r1 == r0 + dr
    IN IF is_valid_square(r1, f0) /\ get_piece_at(b, r1, f0) = NoPiece
       THEN IF r1 \in {0, 7} THEN PromotionMoves(<<r0, f0>>, <<r1, f0>>)
            ELSE <<PlainMove(<<r0, f0>>, <<r1, f0>>)>>
                 \o (IF r0 = start_rank(piece) /\ get_piece_at(b, r0 + 2 * dr, f0) = NoPiece
                     THEN <<Move(<<r0, f0>>, <<r0 + 2 * dr, f0>>, NoPromotion,
                                 FALSE, FALSE, TRUE)>>
                     ELSE <<>>)
       ELSE <<>>

\* _pseudo_legal_pawn_moves, lines 101-111: the capture towards file f0 + df
PawnCapture(b, piece, df) ==
    LET r0 == piece.position[1]
        f0 == piece.position[2]
        r1 == r0 + direction(piece)
        f1 == f0 + df
    IN IF /\ is_valid_square(r1, f1)
          /\ get_piece_at(b, r1, f1) # NoPiece
          /\ get_piece_at(b, r1, f1).color # piece.color
       THEN IF r1 \in {0, 7} THEN PromotionMoves(<<r0, f0>>, <<r1, f1>>)
            ELSE <<PlainMove(<<r0, f0>>, <<r1, f1>>)>>
       ELSE <<>>

\* _pseudo_legal_pawn_moves, lines 112-117: en passant
PawnEnPassant(gs, piece) ==
    LET r0 == piece.position[1]
        f0 == piece.position[2]
        ep == gs.en_passant_target
    IN IF ep # NoSquare
       THEN IF r0 + direction(piece) = ep[1] /\ (f0 - ep[2] = 1 \/ ep[2] - f0 = 1)
            THEN <<Move(<<r0, f0>>, ep, NoPromotion, FALSE, TRUE, FALSE)>>
            ELSE <<>>
       ELSE <<>>

\* _pseudo_legal_pawn_moves
pseudo_legal_pawn_moves(b, gs, piece) ==
    PawnPushes(b, piece) \o PawnCapture(b, piece, -1) \o PawnCapture(b, piece, 1)
    \o PawnEnPassant(gs, piece)

\* _pseudo_legal_sliding_moves, lines 129-139: the walk along one ray
RECURSIVE SlideRay(_, _, _, _, _, _)
SlideRay(b, piece, r, f, dr, df) ==
    IF ~is_valid_square(r, f) THEN <<>>
    ELSE LET target == get_piece_at(b, r, f) IN
         IF target = NoPiece
         THEN <<PlainMove(piece.position, <<r, f>>)>>
              \o SlideRay(b, piece, r + dr, f + df, dr, df)
         ELSE IF target.color # piece.color
              THEN <<PlainMove(piece.position, <<r, f>>)>>
              ELSE <<>>

\* _pseudo_legal_sliding_moves, lines 130-139: the cursor (r, f) after one
\* pass of the while body entered at a square on the board.
SlideWalkNext(b, cur, delta) ==
    IF get_piece_at(b, cur[1], cur[2]) = NoPiece THEN Advance(cur, delta)
    ELSE WalkEnded

\* _pseudo_legal_sliding_moves, line 129: the passes of the while loop made
\* from the cursor on, at most fuel of them; fuel + 1 when the loop is still
\* running after fuel passes.
RECURSIVE SlideWalkLength(_, _, _, _)
SlideWalkLength(b, cur, delta, fuel) ==
    IF cur = WalkEnded THEN 0
    ELSE IF ~is_valid_square(cur[1], cur[2]) THEN 0
    ELSE IF fuel = 0 THEN 1
    ELSE 1 + SlideWalkLength(b, SlideWalkNext(b, cur, delta), delta, fuel - 1)

\* "for dr, df in deltas:" over the deltas from index i on
RECURSIVE SlideFrom(_, _, _, _)
SlideFrom(b, piece, deltas, i) ==
    IF i > Len(deltas) THEN <<>>
    ELSE SlideRay(b, piece, piece.position[1] + deltas[i][1],
                  piece.position[2] + deltas[i][2], deltas[i][1], deltas[i][2])
         \o SlideFrom(b, piece, deltas, i + 1)

\* _pseudo_legal_sliding_moves
pseudo_legal_sliding_moves(b, piece, deltas) == SlideFrom(b, piece, deltas, 1)

\* _pseudo_legal_knight_king_moves
pseudo_legal_knight_king_moves(b, piece, deltas) ==
    LET r0 == piece.position[1]
        f0 == piece.position[2]
        Ok(i) == LET r == r0 + deltas[i][1]
                     f == f0 + deltas[i][2]
                 IN /\ is_valid_square(r, f)
                    /\ \/ get_piece_at(b, r, f) = NoPiece
                       \/ get_piece_at(b, r, f).color # piece.color
        hits == SelectSeq([i \in 1..Len(deltas) |-> i], Ok)
    IN [k \in 1..Len(hits) |->
          PlainMove(<<r0, f0>>, <<r0 + deltas[hits[k]][1], f0 + deltas[hits[k]][2]>>)]

\* _pseudo_legal_castling: one wing.  right is the letter looked up in the
\* rights, empty the files that must be empty, safe the files (besides the
\* king's own square) that must not be attacked, to_file the king's
\* destination.
CastleWing(b, gs, piece, right, empty, safe, to_file) ==
    LET r0 == piece.position[1]
        f0 == piece.position[2]
        opp == Opponent(piece.color)
    IN IF /\ InStr(right, gs.castling_rights)
          /\ \A f \in empty : get_piece_at(b, r0, f) = NoPiece
          /\ ~square_attacked_by(b, <<r0, f0>>, opp, NoSquare)
          /\ \A f \in safe : ~square_attacked_by(b, <<r0, f>>, opp, NoSquare)
       THEN <<Move(<<r0, f0>>, <<r0, to_file>>, NoPromotion, TRUE, FALSE, FALSE)>>
       ELSE <<>>

\* _pseudo_legal_castling
pseudo_legal_castling(b, gs, piece) ==
    IF piece.color = WHITE
    THEN CastleWing(b, gs, piece, "K", {5, 6}, {5, 6}, 6)
         \o CastleWing(b, gs, piece, "Q", {1, 2, 3}, {3, 2}, 2)
    ELSE CastleWing(b, gs, piece, "k", {5, 6}, {5, 6}, 6)
         \o CastleWing(b, gs, piece, "q", {1, 2, 3}, {3, 2}, 2)

\* _pseudo_legal_moves_for_piece
pseudo_legal_moves_for_piece(b, gs, piece) ==
    IF piece.piece_type = PAWN THEN pseudo_legal_pawn_moves(b, gs, piece)
    ELSE IF piece.piece_type = KNIGHT
         THEN pseudo_legal_knight_king_moves(b, piece, KnightDeltas)
    ELSE IF piece.piece_type = BISHOP
         THEN pseudo_legal_sliding_moves(b, piece, BishopDeltas)
    ELSE IF piece.piece_type = ROOK
         THEN pseudo_legal_sliding_moves(b, piece, RookDeltas)
    ELSE IF piece.piece_type = QUEEN
         THEN pseudo_legal_sliding_moves(b, piece, QueenDeltas)
    ELSE IF piece.piece_type = KING
         THEN pseudo_legal_knight_king_moves(b, piece, KingDeltas)
              \o pseudo_legal_castling(b, gs, piece)
    ELSE <<>>

\* A scope that takes in every square of from_square's file.
InScope_WholeFile(from_square, square) ==
    from_square = NoSquare \/ square[2] = from_square[2]

\* get_legal_moves, lines 228-229: a square is skipped when from_square is
\* given and is another square.
InScope(from_square, square) == from_square = NoSquare \/ square = from_square

\* get_legal_moves, lines 225-232: the pseudo-legal moves of the side to
\* move, square by square from index i on (only from_square when it is given).
RECURSIVE PseudoFrom(_, _, _, _)
PseudoFrom(b, gs, from_square, i) ==
    IF i > RANKS * FILES THEN <<>>
    ELSE LET p == b[SquareOrder[i]] IN
         (IF /\ InScope(from_square, SquareOrder[i])
             /\ p # NoPiece
             /\ p.color = gs.side_to_move
          THEN pseudo_legal_moves_for_piece(b, gs, p)
          ELSE <<>>)
         \o PseudoFrom(b, gs, from_square, i + 1)

\* get_legal_moves, lines 234-242: the move is applied to a deep copy and kept
\* when the mover still has a king and that king is not attacked.
KeepsKingSafe(b, gs, move) ==
    LET after == apply_move(deep_copy(b), copy_state(gs), move)
        king_pos == find_king(after.board, gs.side_to_move)
    IN /\ king_pos # NoSquare
       /\ ~square_attacked_by(after.board, king_pos, Opponent(gs.side_to_move), NoSquare)

\* get_legal_moves(board, game_state, from_square)
get_legal_moves(b, gs, from_square) ==
    SelectSeq(PseudoFrom(b, gs, from_square, 1), LAMBDA move : KeepsKingSafe(b, gs, move))

\* The one element of a set of one.
The(set) == CHOOSE x \in set : TRUE

\* The piece objects of the caller's board, each one named by the square it
\* stands on, so that a copy can be seen to share them or not.
Tagged(b) ==
    [sq \in Squares |->
        IF b[sq] = NoPiece THEN NoPiece
        ELSE [piece_type |-> b[sq].piece_type, color |-> b[sq].color,
              position |-> b[sq].position, id |-> sq]]

\* The caller's board after a copy of it was played on.  The caller's grid
\* is its own list; a piece object the copy shares with it carries the
\* position the last set_piece_at on the copy gave it (board.py line 52).
RECURSIVE Reposition(_, _, _)
Reposition(b, played, todo) ==
    IF todo = {} THEN b
    ELSE LET s2 == CHOOSE s \in todo : TRUE
         IN Reposition([b EXCEPT ![played[s2].id].position = played[s2].position],
                       played, todo \ {s2})

CallerAfter(b, played) ==
    Reposition(b, played,
               {s2 \in Squares : /\ "id" \in DOMAIN played[s2]
                                 /\ b[played[s2].id] # NoPiece})

\* get_legal_moves, lines 233-242, seen from the caller: the caller's board
\* after every pseudo-legal move has been applied to a deep copy of it.
RECURSIVE BoardAfterFilter(_, _, _, _)
BoardAfterFilter(b, gs, pseudo, i) ==
    IF i > Len(pseudo) THEN b
    ELSE LET board_copy == deep_copy(Tagged(b))
             state_copy == copy_state(gs)
             played == apply_move(board_copy, state_copy, pseudo[i])
             seen == CallerAfter(b, played.board)
         IN IF seen = b THEN BoardAfterFilter(b, gs, pseudo, i + 1)
            ELSE BoardAfterFilter(seen, gs, pseudo, i + 1)

\* The caller's board after get_legal_moves(board, game_state, from_square)
\* returned.  The pseudo-legal generators only read the board.
BoardAfterLegalMoves(b, gs, from_square) ==
    The({BoardAfterFilter(b, gs, pseudo, 1) : pseudo \in {PseudoFrom(b, gs, from_square, 1)}})

\* ---------------------------------------------------------------- rules.py
NoColor == "None"

\* is_in_check(board, game_state, color)
is_in_check(b, gs, color) ==
    LET side == IF color # NoColor THEN color ELSE gs.side_to_move
        king_pos == find_king(b, side)
    IN IF king_pos = NoSquare THEN FALSE
       ELSE square_attacked_by(b, king_pos, Opponent(side), NoSquare)

\* A classifier for which having no legal move is always mate.
get_game_status_NoMoveIsMate(b, gs) ==
    IF get_legal_moves(b, gs, NoSquare) = <<>> THEN "checkmate"
    ELSE (IF is_in_check(b, gs, NoColor) THEN "check" ELSE "playing")

\* get_game_status(board, game_state)
get_game_status(b, gs) ==
    LET legal_moves == get_legal_moves(b, gs, NoSquare)
        in_check == is_in_check(b, gs, NoColor)
    IN IF legal_moves = <<>>
       THEN (IF in_check THEN "checkmate" ELSE "stalemate")
       ELSE (IF in_check THEN "check" ELSE "playing")

\* ------------------------------------------------------------ state machine
\* The squares, by name.
Sq(name) == <<int(name[2]) - 1, IndexOf(FileChars, name[1]) - 1>>

\* The moves a player may choose in the model, as (from, to, promotion).  The
\* generator decides which of them are legal in a position.
MoveInputs ==
    { <<Sq(x[1]), Sq(x[2]), x[3]>> : x \in {
        \* White: e-pawn and en passant, king-side castling, the a-rook's tour
        << <<"e", "2">>, <<"e", "4">>, NoPromotion >>,
        << <<"e", "4">>, <<"e", "5">>, NoPromotion >>,
        << <<"e", "5">>, <<"d", "6">>, NoPromotion >>,
        << <<"g", "1">>, <<"f", "3">>, NoPromotion >>,
        << <<"f", "1">>, <<"e", "2">>, NoPromotion >>,
        << <<"e", "1">>, <<"g", "1">>, NoPromotion >>,
        << <<"a", "2">>, <<"a", "4">>, NoPromotion >>,
        << <<"a", "1">>, <<"a", "3">>, NoPromotion >>,
        << <<"a", "3">>, <<"h", "3">>, NoPromotion >>,
        << <<"h", "3">>, <<"g", "3">>, NoPromotion >>,
        \* Black: the g-pawn's march to f2 and its promotions, a double push,
        \* a king step
        << <<"g", "7">>, <<"g", "5">>, NoPromotion >>,
        << <<"g", "5">>, <<"g", "4">>, NoPromotion >>,
        << <<"g", "4">>, <<"g", "3">>, NoPromotion >>,
        << <<"g", "3">>, <<"f", "2">>, NoPromotion >>,
        << <<"f", "2">>, <<"e", "1">>, "Q" >>,
        << <<"f", "2">>, <<"g", "1">>, "N" >>,
        << <<"f", "2">>, <<"f", "1">>, "R" >>,
        << <<"d", "7">>, <<"d", "5">>, NoPromotion >>,
        << <<"e", "8">>, <<"d", "7">>, NoPromotion >>,
        << <<"a", "7">>, <<"a", "6">>, NoPromotion >> } }

\* Plies played so far, from the move counters.
Ply(gs) == 2 * (gs.fullmove_number - 1) + (IF gs.side_to_move = BLACK THEN 1 ELSE 0)

\* GameController.__init__ / reset_to_fen(STARTING_FEN): a fresh board filled
\* by from_fen, nothing applied yet.
Init ==
    LET loaded == from_fen(STARTING_FEN, EmptyBoard)
    IN /\ board = loaded.board
       /\ game_state = loaded.state
       /\ last_move = NoMove
       /\ undo_info = NoUndo
       /\ undo_stack = <<>>
       /\ redo_stack = <<>>
       /\ selected_square = NoSquare
       /\ outcome = "None"

\* A player picks a move out of get_legal_moves for a square and the engine
\* applies it with apply_move; the caller keeps the move and its undo record.
Apply(from, to, promo) ==
    /\ Ply(game_state) < MaxPly
    /\ \E move \in Range(get_legal_moves(board, game_state, from)) :
          /\ move.to_square = to
          /\ move.promotion_piece = promo
          /\ LET applied == apply_move(board, game_state, move)
             IN /\ applied.error = ""
                /\ board' = applied.board
                /\ game_state' = applied.state
                /\ last_move' = move
                /\ undo_info' = applied.undo
                /\ UNCHANGED <<undo_stack, redo_stack, selected_square, outcome>>

\* The caller takes the last move back with undo_move and the record it kept;
\* the record is used up.
Undo ==
    /\ undo_info # NoUndo
    /\ LET undone == undo_move(board, game_state, last_move, undo_info)
       IN /\ undone.error = ""
          /\ board' = undone.board
          /\ game_state' = undone.state
          /\ last_move' = NoMove
          /\ undo_info' = NoUndo
          /\ UNCHANGED <<undo_stack, redo_stack, selected_square, outcome>>

Next ==
    \/ \E inp \in MoveInputs : Apply(inp[1], inp[2], inp[3])
    \/ Undo

Spec == Init /\ [][Next]_vars

\* ------------------------------------------ controller and caller machines
\* The squares a user clicks.
SelectInputs == {Sq(<<"e", "2">>), Sq(<<"d", "7">>), Sq(<<"a", "7">>)}

\* The from_square arguments of the legal-move query (None: all moves).
QueryInputs == {NoSquare, Sq(<<"e", "2">>)}

\* The Move objects handed to make_move: legal ones in some position, and
\* ones that never are (a wrong flag, a three-square pawn jump).
MoveArgs ==
    { Move(Sq(<<"e", "2">>), Sq(<<"e", "4">>), NoPromotion, FALSE, FALSE, TRUE),
      Move(Sq(<<"e", "2">>), Sq(<<"e", "4">>), NoPromotion, FALSE, FALSE, FALSE),
      Move(Sq(<<"e", "2">>), Sq(<<"e", "5">>), NoPromotion, FALSE, FALSE, FALSE),
      Move(Sq(<<"d", "7">>), Sq(<<"d", "5">>), NoPromotion, FALSE, FALSE, TRUE),
      Move(Sq(<<"e", "4">>), Sq(<<"d", "5">>), NoPromotion, FALSE, FALSE, FALSE),
      Move(Sq(<<"e", "4">>), Sq(<<"e", "5">>), NoPromotion, FALSE, FALSE, FALSE),
      Move(Sq(<<"a", "7">>), Sq(<<"a", "8">>), "Q", FALSE, FALSE, FALSE) }

\* The (to_square, promotion_piece) pairs handed to make_move_to_square.
ToSquareInputs ==
    { <<Sq(<<"e", "4">>), NoPromotion>>, <<Sq(<<"a", "8">>), NoPromotion>>,
      <<Sq(<<"a", "8">>), "n">>, <<Sq(<<"a", "8">>), "x">> }

\* "4k3/8/8/8/8/8/8/4K3 w - - 0 1"
FEN_KINGS ==
    <<
      "4", "k", "3", "/", "8", "/", "8", "/", "8", "/", "8", "/", "8", "/",
      "8", "/", "4", "K", "3", " ", "w", " ", "-", " ", "-", " ", "0", " ",
      "1" >>

\* "4k3/8/8/4q3/8/8/8/4K3 w - - 0 1"
FEN_QUEEN_CHECK ==
    <<
      "4", "k", "3", "/", "8", "/", "8", "/", "4", "q", "3", "/", "8", "/",
      "8", "/", "8", "/", "4", "K", "3", " ", "w", " ", "-", " ", "-", " ",
      "0", " ", "1" >>

\* "r1bqkb1r/pppp1Qpp/2n2n2/4p3/2B1P3/8/PPPP1PPP/RNB1K1NR b KQkq - 0 4"
FEN_SCHOLARS_MATE ==
    <<
      "r", "1", "b", "q", "k", "b", "1", "r", "/", "p", "p", "p", "p", "1",
      "Q", "p", "p", "/", "2", "n", "2", "n", "2", "/", "4", "p", "3", "/",
      "2", "B", "1", "P", "3", "/", "8", "/", "P", "P", "P", "P", "1", "P",
      "P", "P", "/", "R", "N", "B", "1", "K", "1", "N", "R", " ", "b", " ",
      "K", "Q", "k", "q", " ", "-", " ", "0", " ", "4" >>

\* "7k/5Q2/6K1/8/8/8/8/8 b - - 0 1"
FEN_STALEMATE ==
    <<
      "7", "k", "/", "5", "Q", "2", "/", "6", "K", "1", "/", "8", "/", "8",
      "/", "8", "/", "8", "/", "8", " ", "b", " ", "-", " ", "-", " ", "0",
      " ", "1" >>

\* "4k3/P7/8/8/8/8/8/4K3 w - - 0 1"
FEN_PROMOTION ==
    <<
      "4", "k", "3", "/", "P", "7", "/", "8", "/", "8", "/", "8", "/", "8",
      "/", "8", "/", "4", "K", "3", " ", "w", " ", "-", " ", "-", " ", "0",
      " ", "1" >>

\* "4k3/8/8/8/8/8/8/4K3 w -"
FEN_THREE_FIELDS ==
    <<
      "4", "k", "3", "/", "8", "/", "8", "/", "8", "/", "8", "/", "8", "/",
      "8", "/", "4", "K", "3", " ", "w", " ", "-" >>

\* "4k3/8/8/8/8/8/4K3 w - - 0 1"
FEN_SEVEN_RANKS ==
    <<
      "4", "k", "3", "/", "8", "/", "8", "/", "8", "/", "8", "/", "8", "/",
      "4", "K", "3", " ", "w", " ", "-", " ", "-", " ", "0", " ", "1" >>

\* "4k3/8/8/7/8/8/8/4K3 w - - 0 1"
FEN_SHORT_RANK ==
    <<
      "4", "k", "3", "/", "8", "/", "8", "/", "7", "/", "8", "/", "8", "/",
      "8", "/", "4", "K", "3", " ", "w", " ", "-", " ", "-", " ", "0", " ",
      "1" >>

\* "4k3/8/8/8/8/8/PPPPPPPPP/4K3 w - - 0 1"
FEN_NINE_LETTERS ==
    <<
      "4", "k", "3", "/", "8", "/", "8", "/", "8", "/", "8", "/", "8", "/",
      "P", "P", "P", "P", "P", "P", "P", "P", "P", "/", "4", "K", "3", " ",
      "w", " ", "-", " ", "-", " ", "0", " ", "1" >>

\* "4k3/8/8/8/8/8/54/4K3 w - - 0 1"
FEN_DIGITS_PAST_8 ==
    <<
      "4", "k", "3", "/", "8", "/", "8", "/", "8", "/", "8", "/", "8", "/",
      "5", "4", "/", "4", "K", "3", " ", "w", " ", "-", " ", "-", " ", "0",
      " ", "1" >>

\* "4k3/8/8/8/8/8/3x4/4K3 w - - 0 1"
FEN_UNKNOWN_LETTER ==
    <<
      "4", "k", "3", "/", "8", "/", "8", "/", "8", "/", "8", "/", "8", "/",
      "3", "x", "4", "/", "4", "K", "3", " ", "w", " ", "-", " ", "-", " ",
      "0", " ", "1" >>

\* "4k3/8/8/8/8/8/8/4K3 x - - 0 1"
FEN_BAD_SIDE ==
    <<
      "4", "k", "3", "/", "8", "/", "8", "/", "8", "/", "8", "/", "8", "/",
      "8", "/", "4", "K", "3", " ", "x", " ", "-", " ", "-", " ", "0", " ",
      "1" >>

\* "4k3/8/8/8/8/8/8/4K3 w - e9 0 1"
FEN_BAD_EP ==
    <<
      "4", "k", "3", "/", "8", "/", "8", "/", "8", "/", "8", "/", "8", "/",
      "8", "/", "4", "K", "3", " ", "w", " ", "-", " ", "e", "9", " ", "0",
      " ", "1" >>

\* "4k3/8/8/8/8/8/8/4K3 w - - x 1"
FEN_BAD_CLOCK ==
    <<
      "4", "k", "3", "/", "8", "/", "8", "/", "8", "/", "8", "/", "8", "/",
      "8", "/", "4", "K", "3", " ", "w", " ", "-", " ", "-", " ", "x", " ",
      "1" >>

\* The well-formed FEN texts loaded.
FenInputs ==
    {FEN_KINGS, FEN_QUEEN_CHECK, FEN_SCHOLARS_MATE, FEN_STALEMATE, FEN_PROMOTION}

\* The malformed FEN texts loaded.
BadFenInputs ==
    {FEN_THREE_FIELDS, FEN_SEVEN_RANKS, FEN_SHORT_RANK, FEN_NINE_LETTERS,
     FEN_DIGITS_PAST_8, FEN_UNKNOWN_LETTER, FEN_BAD_SIDE, FEN_BAD_EP, FEN_BAD_CLOCK}

\* ------------------------------------------------------- game/controller.py
\* An entry of _undo_stack / _redo_stack: the tuple (move, undo_info).
StackEntry(move, info) == [move |-> move, undo |-> info]

\* list.pop() leaves all but the last entry.
Front(stack) == SubSeq(stack, 1, Len(stack) - 1)

\* The GameController object: its six fields.
Controller ==
    [board |-> board, game_state |-> game_state, undo_stack |-> undo_stack,
     redo_stack |-> redo_stack, last_move |-> last_move,
     selected_square |-> selected_square]

\* A method call ends with the object as the call left it and what the call
\* returned ("None", "True", "False", a status, "list") or raised.
Return(self, value) == [self |-> self, outcome |-> value]

\* GameController.select(square)
select(self, square) ==
    LET piece == get_piece_at(self.board, square[1], square[2])
        side == self.game_state.side_to_move
    IN Return([self EXCEPT !.selected_square =
                   IF piece # NoPiece /\ piece.color = side THEN square ELSE NoSquare],
              "None")

\* GameController.clear_selection()
clear_selection(self) == Return([self EXCEPT !.selected_square = NoSquare], "None")

\* A make_move that drops the selection even when it rejects the move.
MakeLegalMove_RejectClearsSelection(self, move, legal, queried) ==
    IF move \notin Range(legal)
    THEN Return([self EXCEPT !.board = queried, !.selected_square = NoSquare], "False")
    ELSE LET applied == apply_move(queried, self.game_state, move)
         IN Return([board |-> applied.board,
                    game_state |-> applied.state,
                    undo_stack |-> Append(self.undo_stack,
                                          StackEntry(move, applied.undo)),
                    redo_stack |-> <<>>,
                    last_move |-> move,
                    selected_square |-> NoSquare],
                   "True")

\* make_move, lines 62-69, with the legal list of line 61 in hand and the
\* board as that query left it.
MakeLegalMove(self, move, legal, queried) ==
    IF move \notin Range(legal)
    THEN Return([self EXCEPT !.board = queried], "False")
    ELSE LET applied == apply_move(queried, self.game_state, move)
         IN Return([board |-> applied.board,
                    game_state |-> applied.state,
                    undo_stack |-> Append(self.undo_stack,
                                          StackEntry(move, applied.undo)),
                    redo_stack |-> <<>>,
                    last_move |-> move,
                    selected_square |-> NoSquare],
                   "True")

\* GameController.make_move(move)
make_move(self, move) ==
    The({MakeLegalMove(self, move, legal, queried) :
            legal \in {get_legal_moves(self.board, self.game_state, move.from_square)},
            queried \in {BoardAfterLegalMoves(self.board, self.game_state,
                                              move.from_square)}})

\* make_move_to_square, lines 75-84: the scan of the legal moves of the
\* selected square for the first one to take.
RECURSIVE ScanForSquare(_, _, _, _)
ScanForSquare(legal, to_square, promotion_piece, i) ==
    IF i > Len(legal) THEN [found |-> FALSE, move |-> NoMove]
    ELSE LET m == legal[i]
         IN IF m.to_square # to_square
            THEN ScanForSquare(legal, to_square, promotion_piece, i + 1)
            ELSE IF m.promotion_piece # NoPromotion
            THEN IF \/ promotion_piece = NoPromotion
                    \/ upper(promotion_piece) \notin {"Q", "R", "B", "N"}
                 THEN [found |-> FALSE, move |-> NoMove]
                 ELSE IF m.promotion_piece # upper(promotion_piece)
                 THEN ScanForSquare(legal, to_square, promotion_piece, i + 1)
                 ELSE [found |-> TRUE, move |-> m]
            ELSE [found |-> TRUE, move |-> m]

\* GameController.make_move_to_square(to_square, promotion_piece)
make_move_to_square(self, to_square, promotion_piece) ==
    IF self.selected_square = NoSquare THEN Return(self, "False")
    ELSE The({ IF hit.found THEN make_move(seen, hit.move) ELSE Return(seen, "False") :
                 hit \in {ScanForSquare(legal, to_square, promotion_piece, 1) :
                            legal \in {get_legal_moves(self.board, self.game_state,
                                                       self.selected_square)}},
                 seen \in {[self EXCEPT !.board =
                               BoardAfterLegalMoves(self.board, self.game_state,
                                                    self.selected_square)]} })

\* An undo that moves the entry to the redo stack and leaves the position.
undo_WithoutUndoMove(self) ==
    IF self.undo_stack = <<>> THEN Return(self, "False")
    ELSE Return([self EXCEPT !.undo_stack = Front(self.undo_stack),
                             !.redo_stack = Append(self.redo_stack,
                                 self.undo_stack[Len(self.undo_stack)])],
                "True")

\* An undo that takes the move back and forgets line 92.
undo_KeepsLastMove(self) ==
    IF self.undo_stack = <<>> THEN Return(self, "False")
    ELSE LET top == self.undo_stack[Len(self.undo_stack)]
             rest == Front(self.undo_stack)
             undone == undo_move(self.board, self.game_state, top.move, top.undo)
         IN IF undone.error # ""
            THEN Return([self EXCEPT !.undo_stack = rest], undone.error)
            ELSE Return([board |-> undone.board,
                         game_state |-> undone.state,
                         undo_stack |-> rest,
                         redo_stack |-> Append(self.redo_stack, top),
                         last_move |-> self.last_move,
                         selected_square |-> self.selected_square],
                        "True")

\* GameController.undo(); undo_move raises before it changes anything, with
\* the entry already popped.
undo(self) ==
    IF self.undo_stack = <<>> THEN Return(self, "False")
    ELSE LET top == self.undo_stack[Len(self.undo_stack)]
             rest == Front(self.undo_stack)
             undone == undo_move(self.board, self.game_state, top.move, top.undo)
         IN IF undone.error # ""
            THEN Return([self EXCEPT !.undo_stack = rest], undone.error)
            ELSE Return([board |-> undone.board,
                         game_state |-> undone.state,
                         undo_stack |-> rest,
                         redo_stack |-> Append(self.redo_stack, top),
                         last_move |-> IF rest # <<>> THEN rest[Len(rest)].move
                                       ELSE NoMove,
                         selected_square |-> self.selected_square],
                        "True")

\* GameController.redo(); apply_move raises before it changes anything, with
\* the entry already popped.
redo(self) ==
    IF self.redo_stack = <<>> THEN Return(self, "False")
    ELSE LET top == self.redo_stack[Len(self.redo_stack)]
             rest == Front(self.redo_stack)
             applied == apply_move(self.board, self.game_state, top.move)
         IN IF applied.error # ""
            THEN Return([self EXCEPT !.redo_stack = rest], applied.error)
            ELSE Return([board |-> applied.board,
                         game_state |-> applied.state,
                         undo_stack |-> Append(self.undo_stack, top),
                         redo_stack |-> rest,
                         last_move |-> top.move,
                         selected_square |-> self.selected_square],
                        "True")

\* GameController.reset_to_fen(fen): the board is replaced by a new Board
\* before from_fen runs on it; when from_fen raises, nothing after line 113
\* runs.
reset_to_fen(self, fen) ==
    LET loaded == from_fen(fen, EmptyBoard)
    IN IF loaded.error # ""
       THEN Return([self EXCEPT !.board = loaded.board], loaded.error)
       ELSE Return([board |-> loaded.board,
                    game_state |-> loaded.state,
                    undo_stack |-> <<>>,
                    redo_stack |-> <<>>,
                    last_move |-> NoMove,
                    selected_square |-> NoSquare],
                   "None")

\* GameController.new_game(): reset_to_fen(STARTING_FEN); lines 106-109 clear
\* what it has just cleared.
new_game(self) == reset_to_fen(self, STARTING_FEN)

\* GameController.get_legal_moves(from_square): the list goes to the caller,
\* the board is the one the query leaves.
controller_get_legal_moves(self, from_square) ==
    Return([self EXCEPT !.board =
                BoardAfterLegalMoves(self.board, self.game_state, from_square)],
           "list")

\* GameController.get_status(): get_game_status runs get_legal_moves over
\* the whole board, then is_in_check, which only reads.
get_status(self) ==
    LET queried == BoardAfterLegalMoves(self.board, self.game_state, NoSquare)
    IN Return([self EXCEPT !.board = queried],
              get_game_status(self.board, self.game_state))

\* A call on the controller becomes the next state.
Call(returned) ==
    /\ board' = returned.self.board
    /\ game_state' = returned.self.game_state
    /\ undo_stack' = returned.self.undo_stack
    /\ redo_stack' = returned.self.redo_stack
    /\ last_move' = returned.self.last_move
    /\ selected_square' = returned.self.selected_square
    /\ outcome' = returned.outcome
    /\ UNCHANGED undo_info

Select(square) ==
    \E returned \in {select(Controller, square)} : Call(returned)

ClearSelection ==
    \E returned \in {clear_selection(Controller)} : Call(returned)

\* The undo stack is bounded by MaxStack.
MakeMove(move) ==
    \E returned \in {make_move(Controller, move)} :
        Len(returned.self.undo_stack) <= MaxStack /\ Call(returned)

MakeMoveToSquare(to_square, promotion_piece) ==
    \E returned \in {make_move_to_square(Controller, to_square, promotion_piece)} :
        Len(returned.self.undo_stack) <= MaxStack /\ Call(returned)

ControllerUndo ==
    \E returned \in {undo(Controller)} : Call(returned)

Redo ==
    \E returned \in {redo(Controller)} : Call(returned)

ResetToFen(fen) ==
    \E returned \in {reset_to_fen(Controller, fen)} : Call(returned)

NewGame ==
    \E returned \in {new_game(Controller)} : Call(returned)

GetLegalMoves(from_square) ==
    \E returned \in {controller_get_legal_moves(Controller, from_square)} : Call(returned)

GetStatus ==
    \E returned \in {get_status(Controller)} : Call(returned)

\* The user interface drives the controller.
NextController ==
    \/ \E square \in SelectInputs : Select(square)
    \/ ClearSelection
    \/ \E move \in MoveArgs : MakeMove(move)
    \/ \E inp \in ToSquareInputs : MakeMoveToSquare(inp[1], inp[2])
    \/ ControllerUndo
    \/ Redo
    \/ NewGame
    \/ \E fen \in FenInputs : ResetToFen(fen)
    \/ \E square \in QueryInputs : GetLegalMoves(square)
    \/ GetStatus

SpecController == Init /\ [][NextController]_vars

\* FEN texts of any quality are loaded into a controller in mid-game.
NextLoad ==
    \/ \E fen \in FenInputs \cup BadFenInputs : ResetToFen(fen)
    \/ \E move \in MoveArgs : MakeMove(move)
    \/ ControllerUndo
    \/ Redo
    \/ NewGame

SpecLoad == Init /\ [][NextLoad]_vars

\* ------------------------------------------------- callers of core/apply.py
\* Moves a caller hands to apply_move without asking the generator first:
\* e2e4 and d7d5 as double pushes, e4d5, e4e5, g1f3 and b8c6.
RawMoves ==
    { Move(Sq(<<"e", "2">>), Sq(<<"e", "4">>), NoPromotion, FALSE, FALSE, TRUE),
      Move(Sq(<<"d", "7">>), Sq(<<"d", "5">>), NoPromotion, FALSE, FALSE, TRUE),
      PlainMove(Sq(<<"e", "4">>), Sq(<<"d", "5">>)),
      PlainMove(Sq(<<"e", "4">>), Sq(<<"e", "5">>)),
      PlainMove(Sq(<<"g", "1">>), Sq(<<"f", "3">>)),
      PlainMove(Sq(<<"b", "8">>), Sq(<<"c", "6">>)) }

\* The entry a caller undoes next: the last move it applied.
Top(stack) == stack[Len(stack)]

\* A caller runs apply_move(board, game_state, move) on its own board and
\* state and keeps the returned record next to the move; when apply_move
\* raises, the caller is left with what apply_move had written until then.
\* last_move is the move passed, undo_info the record returned.
CallApplyMove(move) ==
    \E applied \in {apply_move(board, game_state, move)} :
        /\ applied.error # "" \/ Len(undo_stack) < MaxKept
        /\ board' = applied.board
        /\ game_state' = applied.state
        /\ undo_stack' = IF applied.error = ""
                         THEN Append(undo_stack, StackEntry(move, applied.undo))
                         ELSE undo_stack
        /\ last_move' = move
        /\ undo_info' = applied.undo
        /\ outcome' = IF applied.error = "" THEN "None" ELSE applied.error
        /\ UNCHANGED <<redo_stack, selected_square>>

\* A caller runs undo_move(board, game_state, move, undo_info) for the last
\* move it applied, with the i-th record it kept: the record of that move
\* when i is the last index, the record of an earlier move otherwise.
CallUndoMove(i) ==
    /\ i \in 1..Len(undo_stack)
    /\ \E undone \in {undo_move(board, game_state, Top(undo_stack).move,
                                 undo_stack[i].undo)} :
        /\ board' = undone.board
        /\ game_state' = undone.state
        /\ undo_stack' = IF undone.error = "" THEN Front(undo_stack) ELSE undo_stack
        /\ last_move' = Top(undo_stack).move
        /\ undo_info' = undo_stack[i].undo
        /\ outcome' = IF undone.error = "" THEN "None" ELSE undone.error
        /\ UNCHANGED <<redo_stack, selected_square>>

NextCaller ==
    \/ \E move \in RawMoves : CallApplyMove(move)
    \/ \E i \in 1..MaxKept : CallUndoMove(i)

SpecCaller == Init /\ [][NextCaller]_vars

\* ------------------------------------------- positions taken from FEN texts
\* "4k3/8/8/8/8/8/8/4K2R w KK - 0 1": the K right written twice.
FEN_DOUBLE_RIGHT ==
    <<
      "4", "k", "3", "/", "8", "/", "8", "/", "8", "/", "8", "/", "8", "/",
      "8", "/", "4", "K", "2", "R", " ", "w", " ", "K", "K", " ", "-", " ",
      "0", " ", "1" >>

\* "4k3/8/8/8/8/8/8/3K3R w K - 0 1": the K right with the king on d1.
FEN_KING_OFF_HOME ==
    <<
      "4", "k", "3", "/", "8", "/", "8", "/", "8", "/", "8", "/", "8", "/",
      "8", "/", "3", "K", "3", "R", " ", "w", " ", "K", " ", "-", " ", "0",
      " ", "1" >>

\* "4k3/8/8/3NP3/8/8/8/4K3 w - d3 0 1": an en passant target next to a White pawn with a White knight beside the pawn.
FEN_EP_OWN_PIECE ==
    <<
      "4", "k", "3", "/", "8", "/", "8", "/", "3", "N", "P", "3", "/", "8",
      "/", "8", "/", "8", "/", "4", "K", "3", " ", "w", " ", "-", " ", "d",
      "3", " ", "0", " ", "1" >>

\* "4k3/8/3n4/3pP3/8/8/8/4K3 w - d3 0 1": an en passant target that holds a knight.
FEN_EP_OCCUPIED ==
    <<
      "4", "k", "3", "/", "8", "/", "3", "n", "4", "/", "3", "p", "P", "3",
      "/", "8", "/", "8", "/", "8", "/", "4", "K", "3", " ", "w", " ", "-",
      " ", "d", "3", " ", "0", " ", "1" >>

\* "r3k2r/8/8/8/8/8/8/R3K2R w KQkq - 0 1": kings and rooks at home, all four rights.
FEN_CASTLES ==
    <<
      "r", "3", "k", "2", "r", "/", "8", "/", "8", "/", "8", "/", "8", "/",
      "8", "/", "8", "/", "R", "3", "K", "2", "R", " ", "w", " ", "K", "Q",
      "k", "q", " ", "-", " ", "0", " ", "1" >>

\* The FEN texts a position is taken from; from_fen accepts each of them.
PositionFens ==
    {FEN_DOUBLE_RIGHT, FEN_KING_OFF_HOME, FEN_EP_OWN_PIECE, FEN_EP_OCCUPIED, FEN_CASTLES}

\* The moves tried in those positions: king steps, a rook step, the castles
\* the generator offers there and the en passant capture e5xd6.
PositionMoves ==
    { PlainMove(Sq(<<"e", "1">>), Sq(<<"d", "1">>)),
      PlainMove(Sq(<<"e", "1">>), Sq(<<"e", "2">>)),
      PlainMove(Sq(<<"h", "1">>), Sq(<<"g", "1">>)),
      PlainMove(Sq(<<"e", "8">>), Sq(<<"d", "8">>)),
      PlainMove(Sq(<<"e", "8">>), Sq(<<"d", "7">>)),
      Move(Sq(<<"e", "1">>), Sq(<<"g", "1">>), NoPromotion, TRUE, FALSE, FALSE),
      Move(Sq(<<"e", "1">>), Sq(<<"c", "1">>), NoPromotion, TRUE, FALSE, FALSE),
      Move(Sq(<<"d", "1">>), Sq(<<"g", "1">>), NoPromotion, TRUE, FALSE, FALSE),
      Move(Sq(<<"e", "8">>), Sq(<<"g", "8">>), NoPromotion, TRUE, FALSE, FALSE),
      Move(Sq(<<"e", "8">>), Sq(<<"c", "8">>), NoPromotion, TRUE, FALSE, FALSE),
      Move(Sq(<<"e", "5">>), Sq(<<"d", "6">>), NoPromotion, FALSE, TRUE, FALSE) }

\* A position is loaded from a FEN text and played on through the controller.
NextPosition ==
    \/ \E fen \in PositionFens : ResetToFen(fen)
    \/ \E move \in PositionMoves : MakeMove(move)
    \/ ControllerUndo
    \/ Redo

SpecPosition == Init /\ [][NextPosition]_vars

\* ------------------------------------------------ castling from the start
\* The moves that clear the way for White's queen-side castle and for both
\* of Black's castles, and the castles, as (from, to, promotion).  (White's
\* king-side castle is among MoveInputs.)
CastleInputs ==
    { <<Sq(x[1]), Sq(x[2]), NoPromotion>> : x \in {
        << <<"d", "2">>, <<"d", "4">> >>, << <<"d", "1">>, <<"d", "3">> >>,
        << <<"c", "1">>, <<"e", "3">> >>, << <<"b", "1">>, <<"c", "3">> >>,
        << <<"e", "1">>, <<"c", "1">> >>,
        << <<"d", "7">>, <<"d", "5">> >>, << <<"d", "8">>, <<"d", "6">> >>,
        << <<"c", "8">>, <<"e", "6">> >>, << <<"b", "8">>, <<"c", "6">> >>,
        << <<"e", "8">>, <<"c", "8">> >>,
        << <<"g", "8">>, <<"f", "6">> >>, << <<"g", "7">>, <<"g", "6">> >>,
        << <<"f", "8">>, <<"g", "7">> >>, << <<"e", "8">>, <<"g", "8">> >> } }

\* Both sides develop and castle.
NextCastle ==
    \/ \E inp \in CastleInputs : Apply(inp[1], inp[2], inp[3])
    \/ Undo

SpecCastle == Init /\ [][NextCastle]_vars

\* ------------------------------------------------------------------ claims
\* The legal moves of the current position, as get_legal_moves returns them.
LegalMoves == Range(get_legal_moves(board, game_state, NoSquare))

\* The algebraic name of a square under a1 = (0, 0), h8 = (7, 7).
Algebraic(sq) == <<FileChars[sq[2] + 1], DigitChars[(sq[1] + 1) + 1]>>

\* The deltas a sliding piece type moves along (none for the others).
SlideDeltas(t) == IF t = BISHOP THEN BishopDeltas
                  ELSE IF t = ROOK THEN RookDeltas
                  ELSE IF t = QUEEN THEN QueenDeltas
                  ELSE <<>>

\* The piece movement rules: the piece p standing on b could capture on sq.
\* Pawns capture one step diagonally forward, knights and kings by their
\* deltas, sliders along unblocked rays.
CapturesOn(b, p, sq) ==
    LET r == p.position[1]
        f == p.position[2]
    IN \/ /\ p.piece_type = PAWN
          /\ sq[1] = r + direction(p)
          /\ (sq[2] = f - 1 \/ sq[2] = f + 1)
       \/ /\ p.piece_type = KNIGHT
          /\ \E i \in 1..Len(KnightDeltas) :
                sq = <<r + KnightDeltas[i][1], f + KnightDeltas[i][2]>>
       \/ /\ p.piece_type = KING
          /\ \E i \in 1..Len(KingDeltas) :
                sq = <<r + KingDeltas[i][1], f + KingDeltas[i][2]>>
       \/ \E i \in 1..Len(SlideDeltas(p.piece_type)) : \E k \in 1..7 :
             LET d == SlideDeltas(p.piece_type)[i]
             IN /\ sq = <<r + k * d[1], f + k * d[2]>>
                /\ \A j \in 1..(k - 1) : b[<<r + j * d[1], f + j * d[2]>>] = NoPiece

\* Some piece of by_color could capture on sq.
Attacked(b, sq, by_color) ==
    \E s \in Squares : /\ b[s] # NoPiece
                       /\ b[s].color = by_color
                       /\ CapturesOn(b, [b[s] EXCEPT !.position = s], sq)

\* The colour, the king's square and the rook's corner of a castling right.
RightColor(c) == IF c \in {"K", "Q"} THEN WHITE ELSE BLACK
RightKingHome(c) == IF c \in {"K", "Q"} THEN <<0, 4>> ELSE <<7, 4>>
RightCorner(c) == IF c = "K" THEN <<0, 7>>
                  ELSE IF c = "Q" THEN <<0, 0>>
                  ELSE IF c = "k" THEN <<7, 7>>
                  ELSE <<7, 0>>

\* C1: in every reachable position, applying any legal move and undoing it
\* with the record that apply returned gives back the same board (piece type,
\* colour and recorded position on every square) and the same game state.
C1_ApplyUndoExact ==
    \A m \in LegalMoves :
        LET applied == apply_move(board, game_state, m)
            undone == undo_move(applied.board, applied.state, m, applied.undo)
        IN /\ applied.error = ""
           /\ undone.error = ""
           /\ undone.board = board
           /\ undone.state = game_state

\* C1 witness: a position with a legal promotion that captures, whose apply
\* changes the board and whose undo restores it.
C1_Witness ==
    \E m \in LegalMoves :
        LET applied == apply_move(board, game_state, m)
            undone == undo_move(applied.board, applied.state, m, applied.undo)
        IN /\ m.promotion_piece # NoPromotion
           /\ applied.undo.captured_piece # NoPiece
           /\ applied.board # board
           /\ undone.board = board
           /\ undone.state = game_state

\* C2: in every reachable position, after any legal move the mover's king is
\* not attacked by the opponent under the piece movement rules.
C2_KingSafety ==
    \A m \in LegalMoves :
        LET applied == apply_move(board, game_state, m)
            king_pos == find_king(applied.board, game_state.side_to_move)
        IN /\ king_pos # NoSquare
           /\ ~Attacked(applied.board, king_pos, Opponent(game_state.side_to_move))

\* C3: square_attacked_by counts a pawn of colour c as attacking a square
\* exactly when the pawn stands on an adjacent file one rank behind that
\* square in c's direction of advance, the square it could capture onto.
C3_PawnAttackForward ==
    \A sq \in Squares : \A c \in {WHITE, BLACK} :
        PawnAttack(board, sq, c) <=>
            \E s \in Squares :
                /\ board[s] # NoPiece
                /\ board[s].piece_type = PAWN
                /\ board[s].color = c
                /\ sq[1] = s[1] + direction(board[s])
                /\ (sq[2] = s[2] - 1 \/ sq[2] = s[2] + 1)

\* The castle of the side to move towards to_file is in the legal set.
CastleOffered(to_file) ==
    \E m \in LegalMoves : m.is_castle /\ m.to_square[2] = to_file

\* The side to move holds the right, the squares between its king and the
\* rook's corner are empty, and no square from the king's origin to its
\* destination is attacked by the opponent.
CastleAllowed(right, corner_file, to_file) ==
    LET side == game_state.side_to_move
        k == find_king(board, side)
    IN /\ k # NoSquare
       /\ InStr(right, game_state.castling_rights)
       /\ \A f \in 0..7 :
             ((k[2] < f /\ f < corner_file) \/ (corner_file < f /\ f < k[2]))
                => board[<<k[1], f>>] = NoPiece
       /\ \A f \in 0..7 :
             ((k[2] <= f /\ f <= to_file) \/ (to_file <= f /\ f <= k[2]))
                => ~Attacked(board, <<k[1], f>>, Opponent(side))

\* C4: in every reachable position a castle of the side to move is legal if
\* and only if the right is held, the squares between king and rook are empty
\* and the king's origin, transit and destination squares are not attacked.
C4_CastlingGating ==
    LET white == game_state.side_to_move = WHITE
    IN /\ CastleOffered(6) <=> CastleAllowed(IF white THEN "K" ELSE "k", 7, 6)
       /\ CastleOffered(2) <=> CastleAllowed(IF white THEN "Q" ELSE "q", 0, 2)

\* C5: in every reachable position, a legal en passant move goes to an empty
\* square, and applying it removes exactly one piece: the opponent pawn on the
\* mover's origin rank and the destination file, the pawn whose double push
\* was the move before; that pawn and that square are what the undo record
\* holds.
C5_EnPassantCapture ==
    \A m \in LegalMoves :
        m.is_en_passant =>
            LET applied == apply_move(board, game_state, m)
                passed == <<m.from_square[1], m.to_square[2]>>
                mover == board[m.from_square]
            IN /\ board[m.to_square] = NoPiece
               /\ passed # m.to_square
               /\ board[passed] # NoPiece
               /\ board[passed].piece_type = PAWN
               /\ board[passed].color = Opponent(mover.color)
               /\ last_move # NoMove =>
                     (last_move.is_double_pawn_push /\ last_move.to_square = passed)
               /\ applied.undo.captured_piece = board[passed]
               /\ applied.undo.captured_square = passed
               /\ applied.board[passed] = NoPiece
               /\ applied.board[m.from_square] = NoPiece
               /\ applied.board[m.to_square] = [mover EXCEPT !.position = m.to_square]
               /\ \A s \in Squares \ {passed, m.from_square, m.to_square} :
                     applied.board[s] = board[s]

\* C5 witness: right after a double push, an en passant capture of the pushed
\* pawn is legal and its apply records that pawn.
C5_Witness ==
    /\ last_move.is_double_pawn_push
    /\ \E m \in LegalMoves :
          /\ m.is_en_passant
          /\ apply_move(board, game_state, m).undo.captured_piece
                = board[last_move.to_square]
          /\ apply_move(board, game_state, m).undo.captured_square # m.to_square

\* C6: the square codec follows a1 = (0, 0), h8 = (7, 7): whenever an en
\* passant target is set, to_fen writes its algebraic name (e3 for (2, 4)),
\* fen_square_to_coords maps that name back to the target, and the two
\* conversions are inverse to each other.
C6_SquareCodecAlgebraic ==
    game_state.en_passant_target # NoSquare =>
        LET t == game_state.en_passant_target
        IN /\ fen_ep(game_state) = Algebraic(t)
           /\ fen_square_to_coords(Algebraic(t)) = [error |-> "", value |-> t]
           /\ fen_square_to_coords(coords_to_fen_square(t[1], t[2]))
                 = [error |-> "", value |-> t]

\* C7: uci_style names both squares algebraically under a1 = (0, 0) (rank
\* digit = board rank + 1) and appends the promotion letter in lower case.
C7_UciAlgebraic ==
    last_move # NoMove =>
        uci_style(last_move) =
            Algebraic(last_move.from_square) \o Algebraic(last_move.to_square)
            \o (IF last_move.promotion_piece = NoPromotion THEN <<>>
                ELSE <<lower(last_move.promotion_piece)>>)

\* C8: for every reachable position, writing it with to_fen, loading that text
\* into a fresh board with from_fen and writing it again reproduces the
\* placement, side, castling and en passant fields.
C8_FenRoundTrip ==
    LET x == to_fen(game_state, board)
        loaded == from_fen(x, EmptyBoard)
        y == to_fen(loaded.state, loaded.board)
    IN /\ loaded.error = ""
       /\ \A i \in 1..4 : SplitFields(y)[i] = SplitFields(x)[i]

\* C8 witness: a position after a double push in which every castling right
\* has been lost, so that the castling field is written as "-", reloaded from
\* its own FEN with the same en passant target.
C8_Witness ==
    LET loaded == from_fen(to_fen(game_state, board), EmptyBoard)
    IN /\ game_state.en_passant_target # NoSquare
       /\ game_state.castling_rights = <<>>
       /\ SplitFields(to_fen(game_state, board))[3] = <<"-">>
       /\ loaded.state.en_passant_target = game_state.en_passant_target
       /\ loaded.state.castling_rights = <<"-">>

\* The piece the last move moved (a pawn when it promoted).
LastMover ==
    IF last_move.promotion_piece # NoPromotion
    THEN Piece(PAWN, Opponent(game_state.side_to_move), last_move.from_square)
    ELSE [board[last_move.to_square] EXCEPT !.position = last_move.from_square]

\* The last move gives the spec's reason for losing castling right c: the king
\* of that colour moved, that colour's rook left the right's corner, or a rook
\* of that colour was captured on that corner.
RightLostByRule(c) ==
    \/ LastMover.piece_type = KING /\ LastMover.color = RightColor(c)
    \/ /\ LastMover.piece_type = ROOK
       /\ LastMover.color = RightColor(c)
       /\ last_move.from_square = RightCorner(c)
    \/ /\ undo_info.captured_piece # NoPiece
       /\ undo_info.captured_piece.piece_type = ROOK
       /\ undo_info.captured_piece.color = RightColor(c)
       /\ undo_info.captured_square = RightCorner(c)

\* C9: a move removes a castling right only for one of the three reasons of
\* the rule; a move that gives none of them for any right leaves
\* castling_rights as they were.
C9_CastlingRightsRule ==
    last_move # NoMove =>
        /\ \A c \in Range(CASTLING_KEYS) :
              (InStr(c, undo_info.prev_castling) /\ ~InStr(c, game_state.castling_rights))
                 => RightLostByRule(c)
        /\ (\A c \in Range(CASTLING_KEYS) : ~RightLostByRule(c))
              => game_state.castling_rights = undo_info.prev_castling

\* C10: whenever a castling right is held, the king of its colour is on its
\* original square and a rook of its colour is on the right's corner.
C10_RightsImplyHome ==
    \A c \in Range(game_state.castling_rights) :
        /\ board[RightKingHome(c)] # NoPiece
        /\ board[RightKingHome(c)].piece_type = KING
        /\ board[RightKingHome(c)].color = RightColor(c)
        /\ board[RightCorner(c)] # NoPiece
        /\ board[RightCorner(c)].piece_type = ROOK
        /\ board[RightCorner(c)].color = RightColor(c)

\* The last move advanced a pawn two ranks.
LastWasDoublePush ==
    /\ LastMover.piece_type = PAWN
    /\ last_move.to_square[1] - last_move.from_square[1] \in {2, -2}

\* A move of a pawn to an empty square on a neighbouring file.
TakesEnPassant(move) ==
    /\ board[move.from_square].piece_type = PAWN
    /\ move.to_square[2] # move.from_square[2]
    /\ board[move.to_square] = NoPiece

\* C11: after a move is applied, en_passant_target is set if and only if the
\* move was a double pawn push, and then it is the square the pawn passed over
\* (midway rank, same file); an en passant capture is in the legal set only on
\* the ply that follows a double push.
C11_EnPassantWindow ==
    last_move # NoMove =>
        /\ (game_state.en_passant_target # NoSquare) <=> LastWasDoublePush
        /\ LastWasDoublePush =>
              /\ last_move.from_square[2] = last_move.to_square[2]
              /\ game_state.en_passant_target =
                    <<(last_move.from_square[1] + last_move.to_square[1]) \div 2,
                      last_move.from_square[2]>>
        /\ \A move \in LegalMoves : TakesEnPassant(move) => LastWasDoublePush

\* C11 witness: a double push has just been applied and the opponent is
\* offered the en passant capture onto the square passed over.
C11_Witness ==
    /\ last_move # NoMove
    /\ LastWasDoublePush
    /\ \E move \in LegalMoves :
          TakesEnPassant(move) /\ move.to_square = game_state.en_passant_target

\* The pseudo-legal moves of the side to move, before the king-safety filter.
PseudoMoves == PseudoFrom(board, game_state, NoSquare, 1)

\* The entries of a move list that go from one square to another.
FromTo(moves, from, to) ==
    SelectSeq(moves, LAMBDA move : move.from_square = from /\ move.to_square = to)

\* The last rank for a colour.
FinalRank(color) == IF color = WHITE THEN 7 ELSE 0

\* The (origin, destination) pairs by which a pawn of the side to move can
\* step or capture onto its last rank.
PromotionTargets ==
    { ft \in ({1, 6} \X (0..(FILES - 1))) \X ({0, 7} \X (0..(FILES - 1))) :
        LET p == board[ft[1]]
            color == game_state.side_to_move
        IN /\ p # NoPiece /\ p.piece_type = PAWN /\ p.color = color
           /\ ft[2][1] = FinalRank(color)
           /\ ft[1][1] = (IF color = WHITE THEN 6 ELSE 1)
           /\ \/ ft[2][2] = ft[1][2] /\ board[ft[2]] = NoPiece
              \/ /\ ft[2][2] - ft[1][2] \in {1, -1}
                 /\ board[ft[2]] # NoPiece
                 /\ board[ft[2]].color # color }

\* C12: for every push or capture of a pawn onto its last rank the generator
\* yields exactly four moves for that origin and destination, one for each
\* of Q, R, B, N and equal otherwise, none without a promotion piece, and the
\* king-safety filter keeps all four or none.
C12_PromotionFanOut ==
    \A ft \in PromotionTargets :
        LET ps == FromTo(PseudoMoves, ft[1], ft[2])
            ls == FromTo(get_legal_moves(board, game_state, NoSquare), ft[1], ft[2])
        IN /\ Len(ps) = 4
           /\ {ps[i].promotion_piece : i \in 1..Len(ps)} = {"Q", "R", "B", "N"}
           /\ \A i \in 1..Len(ps) :
                 ps[i] = Move(ft[1], ft[2], ps[i].promotion_piece, FALSE, FALSE, FALSE)
           /\ Len(ls) \in {0, 4}
           /\ Range(ls) \subseteq Range(ps)

\* C12 witness: a pawn has both a push and a capture onto its last rank and
\* the legal set holds the four promotions of each.
C12_Witness ==
    /\ \E ft \in PromotionTargets : ft[2][2] = ft[1][2]
    /\ \E ft \in PromotionTargets : ft[2][2] # ft[1][2]
    /\ \A ft \in PromotionTargets :
          Len(FromTo(get_legal_moves(board, game_state, NoSquare), ft[1], ft[2])) = 4

\* The position is the one STARTING_FEN describes, White to move.
AtStartingPosition ==
    /\ board = from_fen(STARTING_FEN, EmptyBoard).board
    /\ game_state.side_to_move = WHITE

\* The moves of a list made by pieces of one type.
MovesOf(moves, t) ==
    SelectSeq(moves, LAMBDA move : board[move.from_square].piece_type = t)

\* C14: the starting position yields exactly 20 legal moves, 16 pawn moves (a
\* single and a double push for each of the 8 pawns, the double pushes flagged
\* is_double_pawn_push) and 4 knight moves.
C14_TwentyMovesAtStart ==
    AtStartingPosition =>
        LET legal == get_legal_moves(board, game_state, NoSquare)
            pawn == MovesOf(legal, PAWN)
            knight == MovesOf(legal, KNIGHT)
        IN /\ Len(legal) = 20
           /\ Cardinality(Range(legal)) = 20
           /\ Len(pawn) = 16
           /\ Len(knight) = 4
           /\ \A f \in 0..(FILES - 1) :
                 /\ Move(<<1, f>>, <<2, f>>, NoPromotion, FALSE, FALSE, FALSE) \in Range(pawn)
                 /\ Move(<<1, f>>, <<3, f>>, NoPromotion, FALSE, FALSE, TRUE) \in Range(pawn)
           /\ {<<move.from_square, move.to_square>> : move \in Range(knight)}
                 = {<<<<0, 1>>, <<2, 0>>>>, <<<<0, 1>>, <<2, 2>>>>,
                    <<<<0, 6>>, <<2, 5>>>>, <<<<0, 6>>, <<2, 7>>>>}

\* C14 witness: the starting position, with its 20 legal moves generated.
C14_Witness ==
    /\ AtStartingPosition
    /\ game_state = from_fen(STARTING_FEN, EmptyBoard).state
    /\ Len(get_legal_moves(board, game_state, NoSquare)) = 20

\* The position is the one a FEN text describes.
PositionIs(fen) ==
    LET loaded == from_fen(fen, EmptyBoard)
    IN board = loaded.board /\ game_state = loaded.state

\* C13: get_game_status returns one of playing, check, checkmate, stalemate:
\* checkmate iff the side to move is in check (is_in_check) with no legal
\* move, stalemate iff not in check with no legal move, check iff in check
\* with a legal move, playing otherwise; the Scholar's-mate position is
\* checkmate with Black in check and "7k/5Q2/6K1/8/8/8/8/8 b" is stalemate
\* with no legal move.
C13_StatusClassification ==
    LET status == get_status(Controller).outcome
        in_check == is_in_check(board, game_state, NoColor)
        legal == get_legal_moves(board, game_state, NoSquare)
    IN /\ status \in {"playing", "check", "checkmate", "stalemate"}
       /\ (status = "checkmate") <=> (in_check /\ legal = <<>>)
       /\ (status = "stalemate") <=> (~in_check /\ legal = <<>>)
       /\ (status = "check") <=> (in_check /\ legal # <<>>)
       /\ (status = "playing") <=> (~in_check /\ legal # <<>>)
       /\ PositionIs(FEN_SCHOLARS_MATE) =>
             status = "checkmate" /\ is_in_check(board, game_state, BLACK)
       /\ PositionIs(FEN_STALEMATE) => status = "stalemate" /\ Len(legal) = 0

\* C13 witness: get_status has answered "stalemate" in the stalemate position.
C13_Witness ==
    /\ PositionIs(FEN_STALEMATE)
    /\ outcome = "stalemate"

\* C15: make_move applies a move that is in the current legal-move set, and
\* for any other move it returns False and leaves the board, the game state,
\* both stacks, last_move and the selection as they were.
C15_MakeMoveRejects ==
    \A move \in MoveArgs :
        LET returned == make_move(Controller, move)
            applied == apply_move(board, game_state, move)
        IN IF move \in LegalMoves
           THEN /\ returned.outcome = "True"
                /\ returned.self.board = applied.board
                /\ returned.self.game_state = applied.state
           ELSE /\ returned.outcome = "False"
                /\ returned.self = Controller

\* C15 witness: a call has returned False in mid-game, with a move on each
\* stack and a square selected, where make_move has moves to reject.
C15_Witness ==
    /\ outcome = "False"
    /\ undo_stack # <<>>
    /\ redo_stack # <<>>
    /\ selected_square # NoSquare
    /\ \E move \in MoveArgs :
          /\ move \notin LegalMoves
          /\ board[move.from_square] # NoPiece
          /\ board[move.from_square].color = game_state.side_to_move

\* C20: the queries leave the caller's position alone: get_legal_moves with
\* or without from_square and get_game_status leave every square of the
\* board, every piece's recorded position and every field of the game state
\* (and of the controller) as they were.
C20_QueriesLeavePosition ==
    /\ \A from_square \in SelectInputs \cup {NoSquare} :
          /\ BoardAfterLegalMoves(board, game_state, from_square) = board
          /\ controller_get_legal_moves(Controller, from_square).self = Controller
    /\ get_status(Controller).self = Controller

\* C20 witness: the legal-move query has answered in a position where a
\* capture is among the moves it tried on a copy.
C20_Witness ==
    /\ outcome = "list"
    /\ \E move \in LegalMoves : board[move.to_square] # NoPiece

\* C16: a FEN load that fails changes nothing: the board handed to from_fen
\* holds the pieces it held before the call, and a failed reset_to_fen leaves
\* the controller's board, game state and stacks as they were.
C16_FailedLoadNoMutation ==
    \A fen \in BadFenInputs :
        LET loaded == from_fen(fen, board)
            returned == reset_to_fen(Controller, fen)
        IN /\ loaded.error # "" => loaded.board = board
           /\ returned.outcome # "None" =>
                 /\ returned.self.board = board
                 /\ returned.self.game_state = game_state
                 /\ returned.self.undo_stack = undo_stack
                 /\ returned.self.redo_stack = redo_stack

\* The malformed texts in which a rank does not sum to 8 files or a field is
\* missing.
RankOrFieldCountFens ==
    {FEN_THREE_FIELDS, FEN_SHORT_RANK, FEN_NINE_LETTERS, FEN_DIGITS_PAST_8}

\* C17: from_fen fails with ValueError, the error kind of a wrong field
\* count, for every placement with a rank that does not sum to 8 files, too
\* short or too long, and for every text of fewer than 4 fields.
C17_RankErrorsAreValueErrors ==
    \A fen \in RankOrFieldCountFens :
        /\ from_fen(fen, board).error = "ValueError"
        /\ reset_to_fen(Controller, fen).outcome = "ValueError"

\* C19: apply_move called with a move whose origin square is empty raises
\* an error and leaves every square of the board and every field of the game
\* state as they were.
C19_ApplyEmptyOriginFailsFast ==
    \A move \in RawMoves :
        board[move.from_square] = NoPiece =>
            \A applied \in {apply_move(board, game_state, move)} :
                /\ applied.error = "ValueError"
                /\ \A sq \in Squares : applied.board[sq] = board[sq]
                /\ applied.state = game_state

\* A caller has just had apply_move raise on a move from an empty square,
\* in a position other than the starting one with a record still kept.
C19_Witness ==
    /\ outcome = "ValueError"
    /\ last_move \in RawMoves
    /\ board[last_move.from_square] = NoPiece
    /\ undo_info = NoUndo
    /\ undo_stack # <<>>
    /\ ~PositionIs(STARTING_FEN)

\* C18: undo_move called for the last move applied with the record of a
\* different move raises an error, or else restores the position the move
\* was applied on, the one the matching record restores.
C18_MismatchedUndoFails ==
    \A i \in 1..Len(undo_stack) :
        undo_stack[i].undo # Top(undo_stack).undo =>
            \A wrong \in {undo_move(board, game_state, Top(undo_stack).move,
                                    undo_stack[i].undo)},
               right \in {undo_move(board, game_state, Top(undo_stack).move,
                                    Top(undo_stack).undo)} :
                \/ wrong.error # ""
                \/ wrong.board = right.board /\ wrong.state = right.state

\* The controller after undo() has been called until can_undo() is false.
RECURSIVE UndoAll(_)
UndoAll(self) == IF self.undo_stack = <<>> THEN self ELSE UndoAll(undo(self).self)

\* The positions the controller is loaded with.
LoadedPositions ==
    { [board |-> loaded.board, state |-> loaded.state] :
        loaded \in {from_fen(fen, EmptyBoard) : fen \in FenInputs \cup {STARTING_FEN}} }

Count(c, rights) == Cardinality({i \in 1..Len(rights) : rights[i] = c})

\* The rights of a colour, and the right of a colour's rook corner.
RightsOf(color) == IF color = WHITE THEN {"K", "Q"} ELSE {"k", "q"}
CornerRight(color, file) ==
    IF color = WHITE THEN (IF file = 7 THEN "K" ELSE "Q")
    ELSE (IF file = 7 THEN "k" ELSE "q")

\* C22: in a position loaded from any castling field from_fen accepts and
\* played on, each right is recorded at most once; after a king move the
\* mover holds neither of its rights, and after a rook move from its corner
\* not the right of that wing.
C22_CastlingRightsSet ==
    /\ \A c \in Range(CASTLING_KEYS) : Count(c, game_state.castling_rights) <= 1
    /\ \A move \in Range(get_legal_moves(board, game_state, NoSquare)) :
          \A applied \in {apply_move(board, game_state, move)} :
              LET piece == board[move.from_square]
                  home == IF piece.color = WHITE THEN 0 ELSE 7
              IN /\ piece.piece_type = KING =>
                       \A c \in RightsOf(piece.color) :
                           ~InStr(c, applied.state.castling_rights)
                 /\ (piece.piece_type = ROOK /\ move.from_square[1] = home
                        /\ move.from_square[2] \in {0, 7}) =>
                       ~InStr(CornerRight(piece.color, move.from_square[2]),
                              applied.state.castling_rights)

\* The squares that hold a king of a colour.
KingsOf(b, color) ==
    {sq \in Squares : b[sq].piece_type = KING /\ b[sq].color = color}

\* C23: in every position reached from the starting position by moves of
\* get_legal_moves each colour has exactly one king, and no legal move
\* lands on a king.
C23_OneKingEach ==
    /\ \A color \in {WHITE, BLACK} : Cardinality(KingsOf(board, color)) = 1
    /\ \A move \in LegalMoves : board[move.to_square].piece_type # KING

\* The squares whose piece is gone after a move, the mover's own square and a
\* castling rook's corner aside: empty afterwards, or held by another piece.
RemovedBy(b, move, applied) ==
    { sq \in Squares \ {move.from_square, applied.undo.rook_from} :
        /\ b[sq] # NoPiece
        /\ \/ applied.board[sq] = NoPiece
           \/ applied.board[sq].piece_type # b[sq].piece_type
           \/ applied.board[sq].color # b[sq].color }

\* C24: in a position loaded from a FEN text, en passant field included, and
\* played on, apply_move of a legal move removes at most one piece other
\* than the mover, a piece of the opponent, and the undo record holds that
\* piece with its square.
C24_ApplyRemovesOneOpponent ==
    \A move \in LegalMoves :
        \A applied \in {apply_move(board, game_state, move)} :
            \A removed \in {RemovedBy(board, move, applied)} :
                /\ Cardinality(removed) <= 1
                /\ \A sq \in removed :
                      /\ board[sq].color # board[move.from_square].color
                      /\ applied.undo.captured_piece = board[sq]
                      /\ applied.undo.captured_square = sq

\* Every occupied square holds a piece that records that square.
PositionsRecorded(b) == \A sq \in Squares : b[sq] # NoPiece => b[sq].position = sq

\* No piece object of the board stands on two squares.
DistinctObjects(b) ==
    \A named \in {{sq \in Squares : "id" \in DOMAIN b[sq]}} :
        Cardinality({b[sq].id : sq \in named}) = Cardinality(named)

\* C25: after from_fen and after any apply_move and undo_move of legal
\* moves every occupied square (r, f) holds a piece whose recorded position
\* is (r, f), and no piece object is on two squares, neither after a further
\* legal move nor after that move is taken back (which gives back the very
\* objects on their squares, but for the new pawn of an undone promotion).
C25_BoardPieceConsistency ==
    /\ PositionsRecorded(board)
    /\ \A move \in LegalMoves, tagged \in {Tagged(board)} :
          \A applied \in {apply_move(tagged, game_state, move)} :
              /\ PositionsRecorded(applied.board)
              /\ DistinctObjects(applied.board)
              /\ \A undone \in {undo_move(applied.board, applied.state, move,
                                           applied.undo)} :
                    \/ undone.board = tagged
                    \/ PositionsRecorded(undone.board) /\ DistinctObjects(undone.board)

\* C25 witness: a move has been taken back on a board that has lost pieces
\* and whose White king and rook have castled.
C25_Witness ==
    /\ last_move = NoMove
    /\ undo_info = NoUndo
    /\ Cardinality({sq \in Squares : board[sq] # NoPiece}) < 32
    /\ board[<<0, 6>>].piece_type = KING
    /\ board[<<0, 5>>].piece_type = ROOK

\* The number of pieces on a board.
PieceCount(b) == Cardinality({sq \in Squares : b[sq] # NoPiece})

\* C26: every apply_move of a legal move flips side_to_move, adds 1 to
\* fullmove_number exactly when Black moved, and sets halfmove_clock to 0
\* when a pawn moved or a piece left the board and to its value + 1
\* otherwise; so the plies counted by the move number and the side grow by
\* one with every move from the starting position, and halfmove_clock is
\* never negative.
C26_ClockAndTurn ==
    [][ /\ game_state'.halfmove_clock >= 0
        /\ last_move' # NoMove =>
              LET mover == board[last_move'.from_square]
                  taken == PieceCount(board') < PieceCount(board)
              IN /\ game_state'.side_to_move # game_state.side_to_move
                 /\ game_state'.side_to_move \in {WHITE, BLACK}
                 /\ game_state'.fullmove_number =
                        game_state.fullmove_number + (IF mover.color = BLACK THEN 1 ELSE 0)
                 /\ game_state'.halfmove_clock =
                        (IF mover.piece_type = PAWN \/ taken THEN 0
                         ELSE game_state.halfmove_clock + 1)
                 /\ Ply(game_state') = Ply(game_state) + 1
                 /\ game_state'.fullmove_number = 1 + (Ply(game_state') \div 2)
      ]_vars

\* C26 witness: a rook has just captured, which sets the clock to 0 on a
\* move that is not a pawn's.
C26_Witness ==
    /\ last_move # NoMove
    /\ board[last_move.to_square].piece_type = ROOK
    /\ undo_info.captured_piece # NoPiece
    /\ game_state.halfmove_clock = 0
    /\ game_state.fullmove_number > 3

\* The number of flags a move sets.
FlagCount(move) ==
    (IF move.is_castle THEN 1 ELSE 0) + (IF move.is_en_passant THEN 1 ELSE 0)
    + (IF move.is_double_pawn_push THEN 1 ELSE 0)

\* C27: every move of get_legal_moves sets at most one of the three flags,
\* carries a promotion piece exactly when it takes a pawn onto the last rank
\* of its colour, is a double pawn push only as a two-rank advance of a pawn
\* from its start rank, and is a castle only as a king move of two files
\* along its rank.
C27_MoveFlags ==
    \A move \in LegalMoves :
        LET piece == board[move.from_square]
            from == move.from_square
            to == move.to_square
        IN /\ FlagCount(move) <= 1
           /\ move.promotion_piece # NoPromotion <=>
                  (piece.piece_type = PAWN /\ to[1] = FinalRank(piece.color))
           /\ move.is_double_pawn_push =>
                  /\ piece.piece_type = PAWN
                  /\ from[1] = start_rank(piece)
                  /\ to = <<from[1] + 2 * direction(piece), from[2]>>
           /\ move.is_castle =>
                  /\ piece.piece_type = KING
                  /\ to[1] = from[1]
                  /\ to[2] - from[2] \in {2, -2}

\* C28: apply_move of a castle takes what stands on the mover's corner
\* (file 7 king-side, file 0 queen-side, on the king's rank) to file 5 or 3
\* and the king to file 6 or 2, and leaves every other square as it was; in
\* positions reached from the starting position by legal moves the piece
\* that arrives there is a rook of the mover's colour.
C28_CastleRelocatesRook ==
    \A move \in LegalMoves :
        move.is_castle =>
            \A applied \in {apply_move(board, game_state, move)} :
                LET from == move.from_square
                    to == move.to_square
                    kingside == to[2] > from[2]
                    corner == <<from[1], IF kingside THEN 7 ELSE 0>>
                    passed == <<from[1], IF kingside THEN 5 ELSE 3>>
                    mover == board[from]
                IN /\ to = <<from[1], IF kingside THEN 6 ELSE 2>>
                   /\ mover.piece_type = KING
                   /\ applied.board[to] = [mover EXCEPT !.position = to]
                   /\ applied.board[from] = NoPiece
                   /\ applied.board[corner] = NoPiece
                   /\ applied.board[passed] = [board[corner] EXCEPT !.position = passed]
                   /\ applied.board[passed].piece_type = ROOK
                   /\ applied.board[passed].color = mover.color
                   /\ \A sq \in Squares \ {from, to, corner, passed} :
                         applied.board[sq] = board[sq]

\* C28 witness: White has castled queen-side and Black has just castled,
\* king and rook of each standing on their new squares.
C28_Witness ==
    /\ last_move.is_castle
    /\ board[last_move.to_square].color = BLACK
    /\ board[last_move.to_square].piece_type = KING
    /\ undo_info.rook_to # NoSquare
    /\ board[undo_info.rook_to].piece_type = ROOK
    /\ board[<<0, 2>>].piece_type = KING
    /\ board[<<0, 3>>].piece_type = ROOK

\* C29: for every square s the legal moves asked for s are the entries of
\* the whole legal list that start on s, in the same order, and there are
\* none when s is empty or holds a piece of the side not to move.
C29_ScopedQuery ==
    \A all \in {get_legal_moves(board, game_state, NoSquare)} :
        \A s \in Squares :
            \A scoped \in {get_legal_moves(board, game_state, s)} :
                /\ scoped = SelectSeq(all, LAMBDA move : move.from_square = s)
                /\ (board[s] = NoPiece \/ board[s].color # game_state.side_to_move) =>
                       scoped = <<>>

\* C29 witness: after a move was made, two pieces of the side to move stand
\* on one file, each with legal moves of its own.
C29_Witness ==
    \E s1, s2 \in Squares :
        /\ s1 # s2 /\ s1[2] = s2[2]
        /\ get_legal_moves(board, game_state, s1) # <<>>
        /\ get_legal_moves(board, game_state, s2) # <<>>
        /\ last_move # NoMove

\* C30: an accepted make_move leaves the redo stack empty, undo() and redo()
\* on an empty stack return False and change nothing, and whenever there is
\* a move to redo it is legal in the present position and apply_move of it
\* there returns the record stored with it.
C30_RedoReplaysInPlace ==
    /\ \A move \in MoveArgs :
          \A made \in {make_move(Controller, move)} :
              made.outcome = "True" => made.self.redo_stack = <<>>
    /\ undo_stack = <<>> => undo(Controller) = Return(Controller, "False")
    /\ redo_stack = <<>> => redo(Controller) = Return(Controller, "False")
    /\ redo_stack # <<>> =>
          \A applied \in {apply_move(board, game_state, Top(redo_stack).move)} :
              /\ Top(redo_stack).move \in
                     Range(get_legal_moves(board, game_state,
                                           Top(redo_stack).move.from_square))
              /\ applied.error = ""
              /\ applied.undo = Top(redo_stack).undo

C32_SelectionOfSideToMove ==
    selected_square # NoSquare =>
        /\ board[selected_square] # NoPiece
        /\ board[selected_square].color = game_state.side_to_move

\* C33: every pseudo-legal move of a pawn along its file goes to an empty
\* square and captures nothing when applied; it is either one rank forward
\* and not flagged, or two ranks forward, flagged is_double_pawn_push, from
\* the start rank of the pawn's colour and over an empty square; and no other
\* move is flagged is_double_pawn_push.
C33_PawnPushGating ==
    \A moves \in {PseudoMoves} :
        \A i \in 1..Len(moves) :
            LET move == moves[i]
                from == move.from_square
                to == move.to_square
                piece == board[from]
                dr == direction(piece)
                push == piece.piece_type = PAWN /\ to[2] = from[2]
            IN /\ move.is_double_pawn_push => push
               /\ push =>
                    /\ board[to] = NoPiece
                    /\ ~move.is_en_passant /\ ~move.is_castle
                    /\ \/ to[1] = from[1] + dr /\ ~move.is_double_pawn_push
                       \/ /\ to[1] = from[1] + 2 * dr
                          /\ move.is_double_pawn_push
                          /\ from[1] = start_rank(piece)
                          /\ board[<<from[1] + dr, from[2]>>] = NoPiece
                    /\ \A applied \in {apply_move(board, game_state, move)} :
                          /\ applied.undo.captured_piece = NoPiece
                          /\ PieceCount(applied.board) = PieceCount(board)

\* C33 witness: the side to move has a pawn on its start rank with the square
\* ahead empty and the one behind that taken, for which the single push is
\* generated and the double push is not, one with the square ahead taken,
\* for which there is no push, and another pawn with its double push.
C33_Witness ==
    \A moves \in {PseudoMoves} :
        /\ \E sq \in Squares :
              LET piece == board[sq]
                  ahead == <<sq[1] + direction(piece), sq[2]>>
                  beyond == <<sq[1] + 2 * direction(piece), sq[2]>>
              IN /\ piece.piece_type = PAWN
                 /\ piece.color = game_state.side_to_move
                 /\ sq[1] = start_rank(piece)
                 /\ board[ahead] = NoPiece /\ board[beyond] # NoPiece
                 /\ FromTo(moves, sq, ahead) # <<>>
                 /\ FromTo(moves, sq, beyond) = <<>>
        /\ \E sq \in Squares :
              LET piece == board[sq]
                  ahead == <<sq[1] + direction(piece), sq[2]>>
              IN /\ piece.piece_type = PAWN
                 /\ piece.color = game_state.side_to_move
                 /\ sq[1] = start_rank(piece)
                 /\ board[ahead] # NoPiece
                 /\ \A i \in 1..Len(moves) :
                       moves[i].from_square = sq => moves[i].to_square[2] # sq[2]
        /\ \E i \in 1..Len(moves) : moves[i].is_double_pawn_push

\* The squares of the board that lie k steps from a square along a delta.
StepsOnBoard(sq, delta) ==
    {k \in 1..(RANKS - 1) :
        is_valid_square(sq[1] + k * delta[1], sq[2] + k * delta[2])}

\* The square k steps from a square along a delta.
Along(sq, delta, k) == <<sq[1] + k * delta[1], sq[2] + k * delta[2]>>

\* The number of squares of the board from a cursor on along a delta, the
\* cursor's own included.
SquaresLeft(cur, delta) ==
    Cardinality({k \in 0..(RANKS - 1) :
                    is_valid_square(cur[1] + k * delta[1], cur[2] + k * delta[2])})

\* The passes a ray walk from a square makes when it stops at the edge of the
\* board or on the first piece that is not on the skipped square.
WalkToBlocker(b, sq, delta, skipped) ==
    LET blockers == {k \in StepsOnBoard(sq, delta) :
                        /\ b[Along(sq, delta, k)] # NoPiece
                        /\ Along(sq, delta, k) # skipped}
    IN IF blockers = {} THEN Cardinality(StepsOnBoard(sq, delta))
       ELSE CHOOSE k \in blockers : \A other \in blockers : k <= other

\* C34: on the board of every position, from every square and along each of
\* the eight ray directions, each pass of the while loop of
\* square_attacked_by (with no exclude_square and with each square of the ray
\* as exclude_square) and of _pseudo_legal_sliding_moves either leaves the
\* loop or takes the cursor one step on, nearer to the edge; the loop makes
\* exactly the passes up to the edge or the first blocker, at most 7, a
\* piece's sliding moves along a ray being one for each pass but possibly
\* the last; and get_legal_moves and get_game_status have a value.
C34_RayWalksTerminate ==
    /\ \A sq \in Squares :
          \A delta \in Range(RookDeltas \o BishopDeltas) :
              LET steps == StepsOnBoard(sq, delta)
                  ray == {Along(sq, delta, k) : k \in steps}
              IN /\ delta # <<0, 0>>
                 /\ \A exclude_square \in {NoSquare} \cup ray :
                       AttackWalkLength(board, Advance(sq, delta), delta,
                                        exclude_square, RANKS)
                          = WalkToBlocker(board, sq, delta, exclude_square)
                 /\ \A cur \in ray :
                       \A exclude_square \in {NoSquare, cur} :
                           \A next \in {AttackWalkNext(board, cur, delta, exclude_square)} :
                               \/ next = WalkEnded
                               \/ /\ next = Advance(cur, delta)
                                  /\ SquaresLeft(next, delta) < SquaresLeft(cur, delta)
                 /\ SlideWalkLength(board, Advance(sq, delta), delta, RANKS)
                       = WalkToBlocker(board, sq, delta, NoSquare)
                 /\ WalkToBlocker(board, sq, delta, NoSquare) <= RANKS - 1
                 /\ board[sq] # NoPiece =>
                       Len(SlideRay(board, board[sq], sq[1] + delta[1], sq[2] + delta[2],
                                    delta[1], delta[2]))
                          \in {WalkToBlocker(board, sq, delta, NoSquare) - 1,
                               WalkToBlocker(board, sq, delta, NoSquare)}
                 /\ \A cur \in ray :
                       \A next \in {SlideWalkNext(board, cur, delta)} :
                           \/ next = WalkEnded
                           \/ /\ next = Advance(cur, delta)
                              /\ SquaresLeft(next, delta) < SquaresLeft(cur, delta)
    /\ Len(get_legal_moves(board, game_state, NoSquare)) \in Nat
    /\ get_game_status(board, game_state)
          \in {"playing", "check", "checkmate", "stalemate"}

\* C34 witness: on an open board a queen's ray runs seven squares to the
\* edge, another ray ends on a piece next to its start, and a walk with an
\* occupied exclude_square goes past it.
C34_Witness ==
    /\ \E sq \in Squares : \E delta \in Range(RookDeltas \o BishopDeltas) :
          /\ board[sq] # NoPiece
          /\ SlideWalkLength(board, Advance(sq, delta), delta, RANKS) = RANKS - 1
    /\ \E sq \in Squares : \E delta \in Range(RookDeltas \o BishopDeltas) :
          /\ board[sq] # NoPiece
          /\ is_valid_square(sq[1] + delta[1], sq[2] + delta[2])
          /\ board[Advance(sq, delta)] # NoPiece
          /\ SlideWalkLength(board, Advance(sq, delta), delta, RANKS) = 1
          /\ AttackWalkLength(board, Advance(sq, delta), delta,
                              Advance(sq, delta), RANKS) > 1

====
